---- MODULE Spec2Model ----
(***************************************************************************)
(* Model of the session / permission layer of scripts/data_processing.py   *)
(* and of the path helpers of scripts/utils.py.                            *)
(***************************************************************************)
EXTENDS Integers, Sequences, FiniteSets, TLC

(***************************************************************************)
(* Bounds and input alphabets                                              *)
(***************************************************************************)

\* Largest value of the wall clock read by datetime.now().timestamp().
MaxClock == 1

\* user_id arguments tried by the callers.
Users == {"alice"}

\* Largest number of '/'-separated segments in a filename argument.
MaxSegs == 3

\* Role arguments tried by the callers; "hacker" is not a key of ROLES.
RoleInputs == {"admin", "data_scientist", "data_analyst", "viewer", "hacker"}

(***************************************************************************)
(* data_processing.py: roles, tokens, session table                        *)
(***************************************************************************)

\* ROLES with the viewer role also granted 'process'.
ROLES_ViewerProcess ==
    [admin          |-> <<"read", "write", "delete", "scale", "encode", "split", "process">>,
     data_scientist |-> <<"read", "write", "scale", "encode", "split", "process">>,
     data_analyst   |-> <<"read", "scale", "encode", "process">>,
     viewer         |-> <<"read", "process">>]

ROLES ==
    [admin          |-> <<"read", "write", "delete", "scale", "encode", "split", "process">>,
     data_scientist |-> <<"read", "write", "scale", "encode", "split", "process">>,
     data_analyst   |-> <<"read", "scale", "encode", "process">>,
     viewer         |-> <<"read">>]

\* Python's `x in list`.
InList(x, list) == \E i \in DOMAIN list : list[i] = x

\* f"session_{user_id}_{timestamp}": the token is a function of the user id
\* and of the clock reading, and of nothing else.
SessionToken(user_id, ts) == <<"session", user_id, ts>>

Tokens == {SessionToken(u, ts) : u \in Users, ts \in 0..MaxClock}

\* Values a caller can hand over as session_token.
NoneVal     == <<"None">>
EmptyStr    == <<"">>
Absent      == <<"absent">>
BogusToken  == <<"invalid_token">>
TokenValues == Tokens \cup {NoneVal, EmptyStr, BogusToken}

\* kwargs.get('session_token'): None when the keyword was not passed.
KwargsGet(kw) == IF kw = Absent THEN NoneVal ELSE kw

\* Python truthiness of the token value: None and '' are falsy.
Falsy(v) == v \in {NoneVal, EmptyStr}

\* The decorator on each guarded function.
RequiredPermission ==
    [clean_column_names           |-> "read",
     handle_missing_values        |-> "process",
     encode_categorical_variables |-> "encode",
     scale_features               |-> "scale",
     detect_outliers              |-> "read",
     split_data                   |-> "split",
     create_feature_summary       |-> "read"]

GuardedFunctions == DOMAIN RequiredPermission

VARIABLES
    sessions,   \* _active_sessions: token -> session record
    now,        \* the wall clock
    call,       \* the last call made: its name and arguments
    ret,        \* its outcome: a return value or the exception raised
    bodyRan,    \* whether the last call executed a guarded function's body
    issued,     \* history: tokens returned by create_session so far
    revoked,    \* history: tokens for which revoke_session returned True
    prev,       \* history: the session table as it was before the last call
    pc,         \* where the call in progress stands: "idle", "ready", "done", a
                \* step of a longer method, or one position per concurrent caller
    links,      \* utils.py: the symbolic links of the filesystem, path -> target
    dirs,       \* utils.py: the directories that exist under the project root
    dirs0,      \* history: dirs as it was before the path request
    effects,    \* in call order: processes started, pandas readers / writers
                \* called, audit-log records written, bodies and steps begun
    fs,         \* the files the scripts read and write, name -> content
    fs0,        \* history: fs as it was before the call
    out         \* the lines printed to standard output

authVars == <<sessions, now, issued, revoked, prev, bodyRan>>
pathVars == <<pc, links, dirs, dirs0>>
utilVars == <<effects, fs, fs0, out>>
vars == <<sessions, now, call, ret, bodyRan, issued, revoked, prev,
          pc, links, dirs, dirs0, effects, fs, fs0, out>>

\* _active_sessions.get(token): the empty set stands for None.
GetSession(tbl, token) == IF token \in DOMAIN tbl THEN {tbl[token]} ELSE {}

Returned(v) == [kind |-> "return", val |-> v]
Raised(e)   == [kind |-> "raise", val |-> e]

NoCall == [name |-> "none"]

Init ==
    /\ sessions = <<>>
    /\ now = 0
    /\ call = NoCall
    /\ ret = Returned(NoneVal)
    /\ bodyRan = FALSE
    /\ issued = {}
    /\ revoked = {}
    /\ prev = <<>>
    /\ pc = "idle"
    /\ links = <<>>
    /\ dirs = {}
    /\ dirs0 = {}
    /\ effects = <<>>
    /\ fs = <<>>
    /\ fs0 = <<>>
    /\ out = <<>>

\* Time passes between two calls.
Tick ==
    /\ now < MaxClock
    /\ now' = now + 1
    /\ UNCHANGED <<sessions, call, ret, bodyRan, issued, revoked, prev, pathVars, utilVars>>

\* The table after _active_sessions[token] = {...}.
StoreSession(tbl, token, rec) ==
    [t \in DOMAIN tbl \cup {token} |-> IF t = token THEN rec ELSE tbl[t]]

\* A revoke that empties the whole table instead of deleting one key.
DeleteSession_Clear(tbl, token) == <<>>

\* The table after del _active_sessions[token].
DeleteSession(tbl, token) == [t \in DOMAIN tbl \ {token} |-> tbl[t]]

\* A session record that takes its permissions from the wrong role.
NewSession_ViewerPermissions(user_id, role, ts) ==
    [user_id |-> user_id, role |-> role, created_at |-> ts,
     permissions |-> <<"read">>]

NewSession(user_id, role, ts) ==
    [user_id |-> user_id, role |-> role, created_at |-> ts,
     permissions |-> ROLES[role]]

CreateSessionOk(user_id, role) ==
    LET token == SessionToken(user_id, now) IN
    /\ role \in DOMAIN ROLES
    /\ sessions' = StoreSession(sessions, token, NewSession(user_id, role, now))
    /\ ret' = Returned(token)
    /\ issued' = issued \cup {token}

\* A create_session that stores the session before it validates the role.
CreateSessionInvalidRole_StoresFirst(user_id, role) ==
    /\ role \notin DOMAIN ROLES
    /\ sessions' = StoreSession(sessions, SessionToken(user_id, now),
                       [user_id |-> user_id, role |-> role, created_at |-> now,
                        permissions |-> <<>>])
    /\ ret' = Raised("ValueError")
    /\ UNCHANGED issued

CreateSessionInvalidRole(user_id, role) ==
    /\ role \notin DOMAIN ROLES
    /\ ret' = Raised("ValueError")
    /\ UNCHANGED <<sessions, issued>>

create_session ==
    \E user_id \in Users, role \in RoleInputs :
        /\ call' = [name |-> "create_session", user_id |-> user_id, role |-> role]
        /\ prev' = sessions
        /\ bodyRan' = FALSE
        /\ \/ CreateSessionOk(user_id, role)
           \/ CreateSessionInvalidRole(user_id, role)
        /\ UNCHANGED <<now, revoked, pathVars, utilVars>>

get_session ==
    \E token \in TokenValues \ {NoneVal} :
        /\ call' = [name |-> "get_session", token |-> token]
        /\ prev' = sessions
        /\ ret' = Returned(GetSession(sessions, token))
        /\ bodyRan' = FALSE
        /\ UNCHANGED <<sessions, now, issued, revoked, pathVars, utilVars>>

RevokeFound(token) ==
    /\ token \in DOMAIN sessions
    /\ sessions' = DeleteSession(sessions, token)
    /\ ret' = Returned(TRUE)
    /\ revoked' = revoked \cup {token}

RevokeNotFound(token) ==
    /\ token \notin DOMAIN sessions
    /\ ret' = Returned(FALSE)
    /\ UNCHANGED <<sessions, revoked>>

revoke_session ==
    \E token \in TokenValues \ {NoneVal} :
        /\ call' = [name |-> "revoke_session", token |-> token]
        /\ prev' = sessions
        /\ bodyRan' = FALSE
        /\ \/ RevokeFound(token)
           \/ RevokeNotFound(token)
        /\ UNCHANGED <<now, issued, pathVars, utilVars>>

\* A wrapper that reports an unknown token as a permission failure.
PermissionOutcome_UnknownIsDenied(tbl, permission, kw) ==
    LET session_token == KwargsGet(kw)
        session == GetSession(tbl, session_token) IN
    IF Falsy(session_token) THEN "AuthenticationError"
    ELSE IF session = {} THEN "AuthorizationError"
    ELSE IF ~ InList(permission, (CHOOSE s \in session : TRUE).permissions)
         THEN "AuthorizationError"
    ELSE "run"

\* A wrapper that authenticates the session and skips the permission check.
PermissionOutcome_NoPermissionCheck(tbl, permission, kw) ==
    LET session_token == KwargsGet(kw)
        session == GetSession(tbl, session_token) IN
    IF Falsy(session_token) THEN "AuthenticationError"
    ELSE IF session = {} THEN "AuthenticationError"
    ELSE "run"

\* The outcome of require_permission(permission)'s wrapper, in the order of
\* its checks: token present, session found, permission held.
PermissionOutcome(tbl, permission, kw) ==
    LET session_token == KwargsGet(kw)
        session == GetSession(tbl, session_token) IN
    IF Falsy(session_token) THEN "AuthenticationError"
    ELSE IF session = {} THEN "AuthenticationError"
    ELSE IF ~ InList(permission, (CHOOSE s \in session : TRUE).permissions)
         THEN "AuthorizationError"
    ELSE "run"

guarded_call ==
    \E func \in GuardedFunctions, kw \in TokenValues \cup {Absent} :
        LET outcome == PermissionOutcome(sessions, RequiredPermission[func], kw) IN
        /\ call' = [name |-> func, token |-> kw]
        /\ prev' = sessions
        /\ bodyRan' = (outcome = "run")
        /\ ret' = IF outcome = "run" THEN Returned("result") ELSE Raised(outcome)
        /\ UNCHANGED <<sessions, now, issued, revoked, pathVars, utilVars>>

Next ==
    \/ Tick
    \/ create_session
    \/ get_session
    \/ revoke_session
    \/ guarded_call

Spec == Init /\ [][Next]_vars

(***************************************************************************)
(* utils.py: get_data_path / get_output_path                               *)
(*                                                                         *)
(* A path is the sequence of its segments below the filesystem root; a     *)
(* filename argument is its '/'-separated segments and whether it starts   *)
(* with '/'.                                                               *)
(***************************************************************************)

\* Path(__file__).parent.parent
get_project_root == <<"proj">>

DataTypeAllowed(data_type) == data_type \in {"raw", "processed", "external"}

OutputTypeAllowed(output_type) == output_type \in {"figures", "models", "reports"}

\* Directory-type arguments tried by the callers.
DataTypeInputs   == {"raw", "processed", "external", "invalid_type", ".."}
OutputTypeInputs == {"figures", "models", "reports", "invalid_type", ".."}

\* Segments the filename arguments are made of.
\* BackslashName is one segment: on the POSIX build of pathlib only '/'
\* separates segments, so the backslashes are part of the name.
BackslashName  == "..\\..\\secret"
DataSegments   == {".", "..", "sub", "link", "proj", "data", "raw", BackslashName}
OutputSegments == {".", "..", "sub", "link", "proj", "outputs", "figures", BackslashName}

FileNames(segments) ==
    [abs : BOOLEAN, segs : UNION {[1..n -> segments] : n \in 0..MaxSegs}]

\* The filesystems tried: without symbolic links, or with a link named
\* 'link' in data/raw and in outputs/figures that points to /etc.
NoLinks == [p \in {} |-> <<>>]
EtcLinks ==
    (<<"proj", "data", "raw", "link">> :> <<"etc">>)
        @@ (<<"proj", "outputs", "figures", "link">> :> <<"etc">>)
LinkConfigs == {NoLinks, EtcLinks}

\* The directories that exist before the request.
Prefixes(p) == {SubSeq(p, 1, k) : k \in 0..Len(p)}
DirConfigs ==
    {Prefixes(<<"proj", "data", "raw">>),
     Prefixes(<<"proj", "data", "raw">>) \cup Prefixes(<<"proj", "outputs", "figures">>)}

\* Path.parent: the root is its own parent.
Parent(p) == IF p = <<>> THEN <<>> ELSE SubSeq(p, 1, Len(p) - 1)

\* Path.resolve(): walk the segments from the root, dropping '.', stepping to
\* the parent on '..' and following a symbolic link as soon as one is reached.
RECURSIVE Walk(_, _, _)
Walk(lk, acc, rest) ==
    IF rest = <<>> THEN acc
    ELSE LET seg == Head(rest) IN
         IF seg = "." THEN Walk(lk, acc, Tail(rest))
         ELSE IF seg = ".." THEN Walk(lk, Parent(acc), Tail(rest))
         ELSE IF Append(acc, seg) \in DOMAIN lk
              THEN Walk(lk, lk[Append(acc, seg)], Tail(rest))
         ELSE Walk(lk, Append(acc, seg), Tail(rest))

\* A path helper that checks the joined path without resolving it.
Resolve_Unresolved(lk, p) == p

Resolve(lk, p) == Walk(lk, <<>>, p)

\* base_dir / filename: an absolute right operand replaces the left one.
JoinPath(base, filename) ==
    IF filename.abs THEN filename.segs ELSE base \o filename.segs

\* target_path.relative_to(base) succeeds.
IsRelativeTo(target, base) ==
    /\ Len(base) <= Len(target)
    /\ SubSeq(target, 1, Len(base)) = base

\* output_dir.mkdir(parents=True, exist_ok=True)
MkdirParents(d, p) == d \cup Prefixes(p)

\* The common tail of both helpers: resolve, check containment, return.
ConfinedPath(lk, base_dir, filename) ==
    LET base_dir_resolved == Resolve(lk, base_dir)
        target_path == Resolve(lk, JoinPath(base_dir, filename)) IN
    IF IsRelativeTo(target_path, base_dir_resolved)
    THEN Returned(target_path)
    ELSE Raised("ValueError")

DataPathOutcome(lk, filename, data_type) ==
    IF ~ DataTypeAllowed(data_type) THEN Raised("ValueError")
    ELSE ConfinedPath(lk, get_project_root \o <<"data", data_type>>, filename)

OutputPathOutcome(lk, filename, output_type) ==
    IF ~ OutputTypeAllowed(output_type) THEN Raised("ValueError")
    ELSE ConfinedPath(lk, get_project_root \o <<"outputs", output_type>>, filename)

\* A get_output_path that creates the directory before it validates the type.
OutputDirsAfter_MkdirFirst(d, output_type) ==
    MkdirParents(d, get_project_root \o <<"outputs", output_type>>)

\* The directories after get_output_path: the output directory is created
\* once the type is accepted, before the filename is looked at.
OutputDirsAfter(d, output_type) ==
    IF ~ OutputTypeAllowed(output_type) THEN d
    ELSE MkdirParents(d, get_project_root \o <<"outputs", output_type>>)

\* The calls of one helper: a filename and a directory type.
PathCalls(name, segments, types) ==
    [name : {name}, filename : FileNames(segments), dir_type : types]

InitPath ==
    /\ sessions = <<>>
    /\ now = 0
    /\ bodyRan = FALSE
    /\ issued = {}
    /\ revoked = {}
    /\ prev = <<>>
    /\ \/ call \in PathCalls("get_data_path", DataSegments, DataTypeInputs)
       \/ call \in PathCalls("get_output_path", OutputSegments, OutputTypeInputs)
    /\ ret = Returned(NoneVal)
    /\ pc = "ready"
    /\ links \in LinkConfigs
    /\ dirs \in DirConfigs
    /\ dirs0 = dirs
    /\ effects = <<>>
    /\ fs = <<>>
    /\ fs0 = <<>>
    /\ out = <<>>

get_data_path ==
    /\ pc = "ready"
    /\ call.name = "get_data_path"
    /\ ret' = DataPathOutcome(links, call.filename, call.dir_type)
    /\ pc' = "done"
    /\ UNCHANGED <<call, links, dirs, dirs0, authVars, utilVars>>

get_output_path ==
    /\ pc = "ready"
    /\ call.name = "get_output_path"
    /\ ret' = OutputPathOutcome(links, call.filename, call.dir_type)
    /\ dirs' = OutputDirsAfter(dirs, call.dir_type)
    /\ pc' = "done"
    /\ UNCHANGED <<call, links, dirs0, authVars, utilVars>>

NextPath ==
    \/ get_data_path
    \/ get_output_path

SpecPath == InitPath /\ [][NextPath]_vars

(***************************************************************************)
(* Claims about the session / permission layer                             *)
(***************************************************************************)

IsGuardedCall == call.name \in GuardedFunctions

\* C1: a guarded function called with no session_token, with None or '', or
\* with a token that is not a key of the session table raises
\* AuthenticationError (never AuthorizationError) and its body does not run.
C1_AuthenticationRequired ==
    (IsGuardedCall /\ (call.token \in {Absent, NoneVal, EmptyStr}
                       \/ call.token \notin DOMAIN sessions))
        => (ret = Raised("AuthenticationError") /\ ~ bodyRan)

\* C1 witness: split_data was called with a token that is no key of a
\* non-empty session table.
C1_Witness ==
    /\ call.name = "split_data"
    /\ call.token = BogusToken
    /\ sessions # <<>>
    /\ ret = Raised("AuthenticationError")

\* C2: for a token that is a key of the session table, the body of a function
\* wrapped by require_permission(p) runs if and only if p is in that session's
\* permission list; otherwise AuthorizationError is raised and it does not run.
C2_PermissionDecides ==
    (IsGuardedCall /\ call.token \in DOMAIN sessions)
        => LET p == RequiredPermission[call.name]
               held == \E i \in 1..Len(sessions[call.token].permissions) :
                           sessions[call.token].permissions[i] = p
           IN  /\ bodyRan <=> held
               /\ held => ret.kind = "return"
               /\ ~ held => ret = Raised("AuthorizationError")

\* C2 witness: a data_analyst session was refused split_data.
C2_Witness ==
    /\ call.name = "split_data"
    /\ call.token \in DOMAIN sessions
    /\ sessions[call.token].role = "data_analyst"
    /\ ret = Raised("AuthorizationError")
    /\ ~ bodyRan

\* The functions each role is admitted to, as the access matrix states them.
AccessMatrix ==
    [admin          |-> {"clean_column_names", "handle_missing_values",
                         "encode_categorical_variables", "scale_features",
                         "detect_outliers", "split_data", "create_feature_summary"},
     data_scientist |-> {"clean_column_names", "handle_missing_values",
                         "encode_categorical_variables", "scale_features",
                         "detect_outliers", "split_data", "create_feature_summary"},
     data_analyst   |-> {"clean_column_names", "handle_missing_values",
                         "encode_categorical_variables", "scale_features",
                         "detect_outliers", "create_feature_summary"},
     viewer         |-> {"clean_column_names", "detect_outliers",
                         "create_feature_summary"}]

\* C3: role access matrix: admin and data_scientist sessions are admitted to
\* all seven guarded functions, data_analyst to all but split_data, viewer only
\* to clean_column_names, detect_outliers and create_feature_summary; every
\* other pair is refused with AuthorizationError.
C3_RoleAccessMatrix ==
    (IsGuardedCall /\ call.token \in DOMAIN sessions)
        => LET role == sessions[call.token].role IN
           IF call.name \in AccessMatrix[role]
           THEN bodyRan /\ ret.kind = "return"
           ELSE ~ bodyRan /\ ret = Raised("AuthorizationError")

\* C3 witness: a viewer session was refused handle_missing_values.
C3_Witness ==
    /\ call.name = "handle_missing_values"
    /\ call.token \in DOMAIN sessions
    /\ sessions[call.token].role = "viewer"
    /\ ret = Raised("AuthorizationError")

\* C4: a revoked session stays revoked: once revoke_session(t) has returned
\* True, get_session(t) is None in every later state and every guarded call
\* with session_token=t raises AuthenticationError.
C4_RevokedStaysRevoked ==
    /\ \A t \in revoked : GetSession(sessions, t) = {}
    /\ (IsGuardedCall /\ call.token \in revoked)
           => ret = Raised("AuthenticationError")

ValidRoleNames == {"admin", "data_scientist", "data_analyst", "viewer"}

\* C5: create_session with a role that is not admin, data_scientist,
\* data_analyst or viewer raises ValueError, returns no token and leaves the
\* session table exactly as it was.
C5_InvalidRoleRejected ==
    (call.name = "create_session" /\ call.role \notin ValidRoleNames)
        => (ret = Raised("ValueError") /\ sessions = prev)

\* C5 witness: create_session was refused for role 'hacker' while a session
\* was active.
C5_Witness ==
    /\ call.name = "create_session"
    /\ call.role = "hacker"
    /\ ret = Raised("ValueError")
    /\ prev # <<>>

\* C6: after create_session(u, r) with a valid role returned token t,
\* get_session(t) is a record with user_id u, role r and the permission list
\* ROLES[r]; get_session of a token create_session never returned is None.
C6_SessionRecord ==
    /\ (call.name = "create_session" /\ ret.kind = "return")
           => \E s \in GetSession(sessions, ret.val) :
                  /\ s.user_id = call.user_id
                  /\ s.role = call.role
                  /\ s.permissions = ROLES[call.role]
    /\ (call.name = "get_session" /\ call.token \notin issued)
           => ret = Returned({})

\* C6 witness: create_session returned the token of an admin session while
\* another session was active.
C6_Witness ==
    /\ call.name = "create_session"
    /\ call.role = "admin"
    /\ ret.kind = "return"
    /\ Cardinality(DOMAIN sessions) = 2

\* C7: revoke_session(t) returns True exactly when t was a key of the session
\* table, and then removes only the entry of t; otherwise it returns False and
\* changes nothing; every other session's record is left unchanged.
C7_RevokeFrame ==
    (call.name = "revoke_session")
        => LET t == call.token IN
           /\ ret = Returned(t \in DOMAIN prev)
           /\ DOMAIN sessions = DOMAIN prev \ {t}
           /\ \A u \in DOMAIN sessions : sessions[u] = prev[u]

\* C7 witness: revoke_session returned True and another session is still
\* active.
C7_Witness ==
    /\ call.name = "revoke_session"
    /\ ret = Returned(TRUE)
    /\ sessions # <<>>

\* C8: sessions never expire and are never evicted: an entry stays in the
\* table with the same user_id, role and permission list until
\* revoke_session is called for its token; get_session and guarded calls
\* never remove or change an entry.
C8_NoExpiry ==
    /\ \A t \in DOMAIN prev :
           \/ call.name = "revoke_session" /\ call.token = t
           \/ /\ t \in DOMAIN sessions
              /\ sessions[t].user_id = prev[t].user_id
              /\ sessions[t].role = prev[t].role
              /\ sessions[t].permissions = prev[t].permissions
    /\ (call.name = "get_session" \/ IsGuardedCall) => sessions = prev

(***************************************************************************)
(* Claims about the path helpers                                           *)
(***************************************************************************)

\* The base directory the request names, as the claim writes it.
BaseDirOf(c) ==
    IF c.name = "get_data_path" THEN <<"proj", "data", c.dir_type>>
    ELSE <<"proj", "outputs", c.dir_type>>

TypeIsAllowed(c) ==
    IF c.name = "get_data_path" THEN c.dir_type \in {"raw", "processed", "external"}
    ELSE c.dir_type \in {"figures", "models", "reports"}

\* A location of the filesystem: no '.' or '..' segment and no symbolic link
\* on the way, and below the base directory.
LiesInside(p, base) ==
    /\ Len(base) <= Len(p)
    /\ \A i \in 1..Len(base) : p[i] = base[i]
    /\ \A i \in 1..Len(p) : p[i] \notin {".", ".."}
    /\ \A k \in 1..Len(p) : SubSeq(p, 1, k) \notin DOMAIN links

\* os.path.normpath of an absolute path: '.' dropped, 'x/..' cancelled.
RECURSIVE Normalised(_)
Normalised(p) ==
    IF p = <<>> THEN <<>>
    ELSE LET front == Normalised(SubSeq(p, 1, Len(p) - 1))
             last == p[Len(p)] IN
         IF last = "." THEN front
         ELSE IF last = ".." THEN (IF front = <<>> THEN <<>>
                                   ELSE SubSeq(front, 1, Len(front) - 1))
         ELSE Append(front, last)

Requested(c) ==
    IF c.filename.abs THEN c.filename.segs ELSE BaseDirOf(c) \o c.filename.segs

CrossesNoLink(c) ==
    links = NoLinks \/ \A i \in 1..Len(c.filename.segs) : c.filename.segs[i] # "link"

\* C9: path confinement: get_data_path / get_output_path either raise
\* ValueError or return a resolved path inside <project_root>/data/<type>
\* resp. <project_root>/outputs/<type>; a filename whose normalised path stays
\* inside the base directory is returned without error.
C9_PathConfinement ==
    pc = "done" =>
        /\ ret.kind = "raise" => ret.val = "ValueError"
        /\ ret.kind = "return" =>
               TypeIsAllowed(call) /\ LiesInside(ret.val, BaseDirOf(call))
        /\ (TypeIsAllowed(call) /\ LiesInside(Resolve(links, Requested(call)), BaseDirOf(call)))
               => ret.kind = "return"
        /\ (TypeIsAllowed(call) /\ CrossesNoLink(call)
              /\ LiesInside(Normalised(Requested(call)), BaseDirOf(call)))
               => (ret.kind = "return" /\ ret.val = Normalised(Requested(call)))

\* C9 witness: '../raw/sub' was requested from data/raw and returned as the
\* path of data/raw/sub.
C9_Witness ==
    /\ pc = "done"
    /\ call.name = "get_data_path"
    /\ call.dir_type = "raw"
    /\ ~ call.filename.abs
    /\ call.filename.segs = <<"..", "raw", "sub">>
    /\ ret.kind = "return"
    /\ ret.val = <<"proj", "data", "raw", "sub">>

\* C10: a data_type outside {raw, processed, external} or an output_type
\* outside {figures, models, reports} raises ValueError whatever the filename
\* is, before any path is built or any directory is created.
C10_InvalidTypeRejected ==
    (pc = "done" /\ ~ TypeIsAllowed(call))
        => (ret.kind = "raise" /\ ret.val = "ValueError" /\ dirs = dirs0)

\* C10 witness: get_output_path was refused for 'invalid_type' with the
\* harmless filename 'sub' while outputs/ did not exist.
C10_Witness ==
    /\ pc = "done"
    /\ call.name = "get_output_path"
    /\ call.dir_type = "invalid_type"
    /\ call.filename = [abs |-> FALSE, segs |-> <<"sub">>]
    /\ ret.kind = "raise"
    /\ <<"proj", "outputs">> \notin dirs

\* The segments of a name when the backslash is read as a separator too.
BackslashParts(seg) ==
    IF seg = BackslashName THEN <<"..", "..", "secret">> ELSE <<seg>>

RECURSIVE SplitBackslashes(_)
SplitBackslashes(segs) ==
    IF segs = <<>> THEN <<>>
    ELSE BackslashParts(Head(segs)) \o SplitBackslashes(Tail(segs))

\* The filename climbs out of the base directory with parent-directory
\* segments, whichever of '/' and '\' separates them.
ClimbsOut(c) ==
    LET segs == SplitBackslashes(c.filename.segs)
        path == Normalised(IF c.filename.abs THEN segs ELSE BaseDirOf(c) \o segs)
        base == BaseDirOf(c) IN
    /\ \E i \in 1..Len(segs) : segs[i] = ".."
    /\ ~ (Len(base) <= Len(path) /\ SubSeq(path, 1, Len(base)) = base)

\* C11: every filename that climbs out of the base directory with
\* parent-directory segments raises ValueError, also when the segments are
\* separated by backslashes.
C11_BackslashTraversalRejected ==
    (pc = "done" /\ TypeIsAllowed(call) /\ ClimbsOut(call))
        => (ret.kind = "raise" /\ ret.val = "ValueError")

(***************************************************************************)
(* utils.py: safe_subprocess_run, validate_command_argument;               *)
(* tests/test_docker_setup.py: DockerJupyterTester.run_command             *)
(***************************************************************************)

\* Largest number of elements in a command list.
MaxArgs == 2

\* Largest number of characters in an argument handed to
\* validate_command_argument.
MaxArgLen == 3

\* The parts of the state the session layer and the path helpers own, when
\* neither has been used.
IdleAuth ==
    /\ sessions = <<>>
    /\ now = 0
    /\ bodyRan = FALSE
    /\ issued = {}
    /\ revoked = {}
    /\ prev = <<>>

IdlePath ==
    /\ links = NoLinks
    /\ dirs = {}
    /\ dirs0 = {}

\* Elements of a command list: two strings, one full of shell
\* metacharacters, and an int.
CommandElements ==
    {[type |-> "str", text |-> "echo"],
     [type |-> "str", text |-> "x; rm -rf / | $(id) &"],
     [type |-> "int", text |-> "123"]}

\* The command argument: a str, a tuple, or a list of elements.
CommandInputs ==
    {[type |-> "str", items |-> <<>>], [type |-> "tuple", items |-> <<>>]}
    \cup {[type |-> "list", items |-> items] :
             items \in UNION {[1..n -> CommandElements] : n \in 0..MaxArgs}}

\* **kwargs: whether the caller passes shell=..., and what.
ShellKwargs == {"absent", "True", "False"}

\* all(isinstance(arg, str) for arg in command), weakened to the first one.
AllStrings_FirstOnly(items) == items = <<>> \/ items[1].type = "str"

\* all(isinstance(arg, str) for arg in command)
AllStrings(items) == \A i \in 1..Len(items) : items[i].type = "str"

\* The three validations of safe_subprocess_run, in order.
CommandRejected(command) ==
    \/ command.type # "list"
    \/ Len(command.items) = 0
    \/ ~ AllStrings(command.items)

\* A call that lets the caller's shell=... replace the fixed shell=False.
RunArguments_KwargsWin(command, shell_kw) ==
    [error |-> "none", shell |-> (shell_kw = "True"),
     argv |-> [i \in 1..Len(command.items) |-> command.items[i].text]]

\* subprocess.run(command, ..., shell=False, **kwargs): a second shell=
\* keyword is a TypeError raised while the call is being made.
RunArguments(command, shell_kw) ==
    IF shell_kw # "absent"
    THEN [error |-> "TypeError", shell |-> FALSE, argv |-> <<>>]
    ELSE [error |-> "none", shell |-> FALSE,
          argv |-> [i \in 1..Len(command.items) |-> command.items[i].text]]

\* What subprocess.run can end in once the process was started.
ProcessResults ==
    {Returned("CompletedProcess"), Raised("CalledProcessError"),
     Raised("TimeoutExpired")}

Process(argv, shell) == [op |-> "subprocess.run", argv |-> argv, shell |-> shell]

\* Command strings handed to run_command by the tester.
CommandStrings == {"docker --version", "docker compose down"}

\* Characters of the arguments validated: two letters, a digit, the four
\* allowed punctuation marks, and characters outside the allowed class.
ArgChars == {"a", "Z", "7", ".", "_", "/", "-", " ", ";", "$", "\n"}

ArgInputs == UNION {[1..n -> ArgChars] : n \in 0..MaxArgLen}

\* The character class [a-zA-Z0-9._/-]
InAllowedClass(ch) == ch \in {"a", "Z", "7", ".", "_", "/", "-"}

\* '$' outside MULTILINE mode: at the end of the string, or just before a
\* newline that is the last character.
AtDollar(str, k) ==
    \/ k = Len(str)
    \/ k = Len(str) - 1 /\ str[Len(str)] = "\n"

\* bool(re.match("^[a-zA-Z0-9._/-]+$", arg))
ValidateCommandArgument(arg) ==
    \E k \in 1..Len(arg) :
        /\ \A i \in 1..k : InAllowedClass(arg[i])
        /\ AtDollar(arg, k)

ProcCalls ==
    {[name |-> "safe_subprocess_run", command |-> c, shell_kw |-> k] :
        c \in CommandInputs, k \in ShellKwargs}
    \cup {[name |-> "run_command", command |-> c] : c \in CommandStrings}
    \cup {[name |-> "validate_command_argument", arg |-> a] : a \in ArgInputs}

InitProc ==
    /\ IdleAuth
    /\ IdlePath
    /\ call \in ProcCalls
    /\ ret = Returned(NoneVal)
    /\ pc = "ready"
    /\ effects = <<>>
    /\ fs = <<>>
    /\ fs0 = <<>>
    /\ out = <<>>

safe_subprocess_run ==
    /\ pc = "ready"
    /\ call.name = "safe_subprocess_run"
    /\ pc' = "done"
    /\ IF CommandRejected(call.command)
       THEN ret' = Raised("ValueError") /\ UNCHANGED effects
       ELSE LET run == RunArguments(call.command, call.shell_kw) IN
            IF run.error # "none"
            THEN ret' = Raised(run.error) /\ UNCHANGED effects
            ELSE /\ effects' = Append(effects, Process(run.argv, run.shell))
                 /\ ret' \in ProcessResults
    /\ UNCHANGED <<call, fs, fs0, out, links, dirs, dirs0, authVars>>

\* run_command hands the command string to subprocess.run with shell=True and
\* turns every outcome, exceptions included, into a (success, stdout, stderr)
\* triple.
run_command ==
    /\ pc = "ready"
    /\ call.name = "run_command"
    /\ pc' = "done"
    /\ effects' = Append(effects, Process(<<call.command>>, TRUE))
    /\ ret' \in {Returned("success"), Returned("failure")}
    /\ UNCHANGED <<call, fs, fs0, out, links, dirs, dirs0, authVars>>

validate_command_argument ==
    /\ pc = "ready"
    /\ call.name = "validate_command_argument"
    /\ pc' = "done"
    /\ ret' = Returned(ValidateCommandArgument(call.arg))
    /\ UNCHANGED <<call, effects, fs, fs0, out, links, dirs, dirs0, authVars>>

NextProc ==
    \/ safe_subprocess_run
    \/ run_command
    \/ validate_command_argument

SpecProc == InitProc /\ [][NextProc]_vars

(***************************************************************************)
(* Claims about the subprocess helpers                                     *)
(***************************************************************************)

\* C12: safe_subprocess_run raises ValueError and starts no process when the
\* command is not a list, is an empty list, or has an element that is not a
\* string.
C12_CommandValidated ==
    (pc = "done" /\ call.name = "safe_subprocess_run"
       /\ (\/ call.command.type # "list"
           \/ call.command.items = <<>>
           \/ \E i \in 1..Len(call.command.items) : call.command.items[i].type # "str"))
        => (ret.kind = "raise" /\ ret.val = "ValueError" /\ effects = <<>>)

\* C12 witness: ['echo', 123] was refused.
C12_Witness ==
    /\ pc = "done"
    /\ call.name = "safe_subprocess_run"
    /\ call.command.type = "list"
    /\ Len(call.command.items) = 2
    /\ call.command.items[1].type = "str"
    /\ call.command.items[2].type = "int"
    /\ ret.kind = "raise"

\* C13: safe_subprocess_run never starts a process with the shell enabled:
\* every process it starts has shell=False and gets each list element as one
\* literal argument, and a call passing shell=... ends in an error without a
\* process.
C13_NeverShell ==
    (pc = "done" /\ call.name = "safe_subprocess_run")
        => /\ \A i \in 1..Len(effects) :
                  /\ effects[i].shell = FALSE
                  /\ Len(effects[i].argv) = Len(call.command.items)
                  /\ \A j \in 1..Len(effects[i].argv) :
                         effects[i].argv[j] = call.command.items[j].text
           /\ call.shell_kw = "True" => (ret.kind = "raise" /\ effects = <<>>)

\* C13 witness: a command with shell metacharacters was started, without a
\* shell, as two literal arguments.
C13_Witness ==
    /\ pc = "done"
    /\ call.name = "safe_subprocess_run"
    /\ Len(effects) = 1
    /\ effects[1].argv = <<"echo", "x; rm -rf / | $(id) &">>
    /\ effects[1].shell = FALSE

\* C14: validate_command_argument(arg) returns True if and only if arg is
\* non-empty and every character of arg is a letter, a digit or one of
\* '.', '_', '/', '-'.
C14_OnlyAllowedCharacters ==
    (pc = "done" /\ call.name = "validate_command_argument")
        => (ret.val <=> (/\ Len(call.arg) >= 1
                         /\ \A i \in 1..Len(call.arg) :
                                call.arg[i] \in {"a", "Z", "7", ".", "_", "/", "-"}))

\* C15: run_command never executes a command through a shell.
C15_RunCommandNoShell ==
    (pc = "done" /\ call.name = "run_command")
        => \A i \in 1..Len(effects) : effects[i].shell = FALSE

(***************************************************************************)
(* version_manager.py: VersionManager and main                             *)
(*                                                                         *)
(* A version string is the sequence of its characters.  README.md is kept  *)
(* as the text of its version badge (empty when it has none) and           *)
(* CHANGELOG.md as its list of entries and whether '# Changelog' and the   *)
(* first '## [' stand on one line.                                         *)
(***************************************************************************)

\* Largest number of characters in a version string (version.txt or --set).
MaxVerLen == 5

VersionChars == {"0", "1", "9", ".", "v", "\n"}

VersionTexts == UNION {[1..n -> VersionChars] : n \in 0..MaxVerLen}

DigitChars == <<"0", "1", "2", "3", "4", "5", "6", "7", "8", "9">>

IsDigit(ch) == \E d \in 1..10 : DigitChars[d] = ch

DigitValue(ch) == (CHOOSE d \in 1..10 : DigitChars[d] = ch) - 1

\* int(digits)
RECURSIVE ToInt(_)
ToInt(digits) ==
    IF digits = <<>> THEN 0
    ELSE 10 * ToInt(SubSeq(digits, 1, Len(digits) - 1)) + DigitValue(digits[Len(digits)])

\* str(n), as the f-string formats an int.
RECURSIVE ToStr(_)
ToStr(n) ==
    IF n < 10 THEN <<DigitChars[n + 1]>>
    ELSE Append(ToStr(n \div 10), DigitChars[(n % 10) + 1])

\* f"{major}.{minor}.{patch}"
FormatVersion(major, minor, patch) ==
    ToStr(major) \o <<".">> \o ToStr(minor) \o <<".">> \o ToStr(patch)

\* str.strip()
Whitespace == {" ", "\t", "\n"}

RECURSIVE Strip(_)
Strip(str) ==
    IF str = <<>> THEN <<>>
    ELSE IF Head(str) \in Whitespace THEN Strip(Tail(str))
    ELSE IF str[Len(str)] \in Whitespace THEN Strip(SubSeq(str, 1, Len(str) - 1))
    ELSE str

\* (\d+)\.(\d+)\.(\d+) over the whole of str.
IsDottedTriple(str) ==
    LET dots == {i \in 1..Len(str) : str[i] = "."} IN
    /\ Cardinality(dots) = 2
    /\ \A i \in 1..Len(str) : IsDigit(str[i]) \/ str[i] = "."
    /\ 1 \notin dots
    /\ Len(str) \notin dots
    /\ \A i \in dots : i + 1 \notin dots

\* The part of version the groups of r'^(\d+)\.(\d+)\.(\d+)$' cover, as a
\* set: empty when re.match fails.  '$' also matches before a final newline.
VersionMatch(version) ==
    {body \in {version} \cup
              (IF version # <<>> /\ version[Len(version)] = "\n"
               THEN {SubSeq(version, 1, Len(version) - 1)} ELSE {}) :
        IsDottedTriple(body)}

\* match.groups() as ints.
VersionTuple(body) ==
    LET d1 == CHOOSE i \in 1..Len(body) : body[i] = "." /\ \A j \in 1..(i - 1) : body[j] # "."
        d2 == CHOOSE i \in (d1 + 1)..Len(body) : body[i] = "." IN
    <<ToInt(SubSeq(body, 1, d1 - 1)),
      ToInt(SubSeq(body, d1 + 1, d2 - 1)),
      ToInt(SubSeq(body, d2 + 1, Len(body)))>>

\* get_current_version
CurrentVersion(files) ==
    IF "version.txt" \notin DOMAIN files THEN <<"0", ".", "1", ".", "0">>
    ELSE Strip(files["version.txt"])

\* A bump that forgets to reset the lower fields.
Bumped_NoReset(v, bump_type) ==
    IF bump_type = "major" THEN <<v[1] + 1, v[2], v[3]>>
    ELSE IF bump_type = "minor" THEN <<v[1], v[2] + 1, v[3]>>
    ELSE <<v[1], v[2], v[3] + 1>>

\* The if / elif chain of bump_version.
Bumped(v, bump_type) ==
    IF bump_type = "major" THEN <<v[1] + 1, 0, 0>>
    ELSE IF bump_type = "minor" THEN <<v[1], v[2] + 1, 0>>
    ELSE <<v[1], v[2], v[3] + 1>>

BumpTypes == {"major", "minor", "patch", "bogus"}

\* bump_version: parse the current version, then look at bump_type.
BumpVersion(files, bump_type) ==
    LET matched == VersionMatch(CurrentVersion(files)) IN
    IF matched = {} THEN Raised("ValueError")
    ELSE IF bump_type \notin {"major", "minor", "patch"} THEN Raised("ValueError")
    ELSE LET v == Bumped(VersionTuple(CHOOSE b \in matched : TRUE), bump_type) IN
         Returned(FormatVersion(v[1], v[2], v[3]))

\* The three files in the states tried around update_all.
Readmes == {[badge |-> <<>>], [badge |-> <<"1", ".", "9">>]}

Entry(tag, version) == [tag |-> tag, version |-> version]

Changelogs ==
    {[inline |-> FALSE, entries |-> <<>>],
     [inline |-> FALSE, entries |-> <<Entry("v", <<"1", ".", "9", ".", "0">>)>>],
     [inline |-> TRUE,  entries |-> <<Entry("v", <<"1", ".", "9", ".", "0">>)>>]}

File(name, content) == [n \in {name} |-> content]

Merge(f, g) == [n \in DOMAIN f \cup DOMAIN g |-> IF n \in DOMAIN f THEN f[n] ELSE g[n]]

VersionFiles(texts) == {<<>>} \cup {File("version.txt", t) : t \in texts}

ProjectFiles(texts) ==
    {Merge(v, Merge(r, c)) :
        v \in VersionFiles(texts),
        r \in {<<>>} \cup {File("README.md", x) : x \in Readmes},
        c \in {<<>>} \cup {File("CHANGELOG.md", x) : x \in Changelogs}}

WriteFile(files, name, content) == Merge(File(name, content), files)

\* An update_version_file that writes whatever dry_run says.
AfterVersionFile_IgnoresDryRun(files, new_version, dry_run) ==
    WriteFile(files, "version.txt", new_version)

\* update_version_file
AfterVersionFile(files, new_version, dry_run) ==
    IF dry_run THEN files ELSE WriteFile(files, "version.txt", new_version)

\* update_readme: the badge is rewritten when there is one and the text
\* changes.
AfterReadme(files, new_version, dry_run) ==
    IF "README.md" \notin DOMAIN files THEN files
    ELSE LET content == files["README.md"]
             new_content == IF content.badge = <<>> THEN content
                            ELSE [badge |-> new_version] IN
         IF content = new_content THEN files
         ELSE IF dry_run THEN files
         ELSE WriteFile(files, "README.md", new_content)

\* add_changelog_entry: the entry goes after an inline header, else before
\* the first '## [v' line, else nowhere; the file is rewritten unless
\* dry_run.
AfterChangelog(files, new_version, dry_run) ==
    IF "CHANGELOG.md" \notin DOMAIN files THEN files
    ELSE LET content == files["CHANGELOG.md"]
             new_content ==
                 IF content.inline
                 THEN [content EXCEPT !.entries = <<Entry("", new_version)>> \o @]
                 ELSE IF \E i \in 1..Len(content.entries) : content.entries[i].tag = "v"
                 THEN [content EXCEPT !.entries = <<Entry("v", new_version)>> \o @]
                 ELSE content IN
         IF dry_run THEN files
         ELSE WriteFile(files, "CHANGELOG.md", new_content)

\* update_all
AfterUpdateAll(files, new_version, dry_run) ==
    AfterChangelog(AfterReadme(AfterVersionFile(files, new_version, dry_run),
                               new_version, dry_run),
                   new_version, dry_run)

\* New versions handed to update_all directly.
NewVersions == {<<"1", ".", "9", ".", "0">>, <<"9", ".", "1", ".", "1">>, <<"v", "1">>}

VersionCalls ==
    {[name |-> "bump_version", bump_type |-> b] : b \in BumpTypes}
    \cup {[name |-> "update_all", new_version |-> v, dry_run |-> d] :
             v \in NewVersions, d \in BOOLEAN}
    \cup {[name |-> "main_set", version |-> v, dry_run |-> d] :
             v \in VersionTexts, d \in BOOLEAN}

\* bump_version is tried on every text of version.txt, update_all on every
\* combination of present and missing files, main on an empty project and
\* on complete ones.
FilesFor(c) ==
    IF c.name = "bump_version" THEN VersionFiles(VersionTexts)
    ELSE IF c.name = "update_all" THEN ProjectFiles({<<"1", ".", "9", ".", "0", "\n">>})
    ELSE {f \in ProjectFiles({<<"1", ".", "9", ".", "0", "\n">>}) :
             \/ DOMAIN f = {}
             \/ /\ DOMAIN f = {"version.txt", "README.md", "CHANGELOG.md"}
                /\ f["CHANGELOG.md"].entries # <<>>}

InitVersion ==
    /\ IdleAuth
    /\ IdlePath
    /\ call \in VersionCalls
    /\ ret = Returned(NoneVal)
    /\ pc = "ready"
    /\ effects = <<>>
    /\ fs \in FilesFor(call)
    /\ fs0 = fs
    /\ out = <<>>

bump_version ==
    /\ pc = "ready"
    /\ call.name = "bump_version"
    /\ pc' = "done"
    /\ ret' = BumpVersion(fs, call.bump_type)
    /\ UNCHANGED <<call, effects, fs, fs0, out, links, dirs, dirs0, authVars>>

update_all ==
    /\ pc = "ready"
    /\ call.name = "update_all"
    /\ pc' = "done"
    /\ fs' = AfterUpdateAll(fs, call.new_version, call.dry_run)
    /\ ret' = Returned(NoneVal)
    /\ UNCHANGED <<call, effects, fs0, out, links, dirs, dirs0, authVars>>

\* main with --set VERSION: an empty VERSION is falsy and ends in
\* parser.error (status 2); a VERSION parse_version rejects ends in the
\* except branch (status 1); otherwise update_all runs.
MainSetStatus(version) ==
    IF version = <<>> THEN 2
    ELSE IF VersionMatch(version) = {} THEN 1
    ELSE 0

main_set ==
    /\ pc = "ready"
    /\ call.name = "main_set"
    /\ pc' = "done"
    /\ ret' = [kind |-> "exit", val |-> MainSetStatus(call.version)]
    /\ fs' = IF MainSetStatus(call.version) = 0
             THEN AfterUpdateAll(fs, call.version, call.dry_run)
             ELSE fs
    /\ UNCHANGED <<call, effects, fs0, out, links, dirs, dirs0, authVars>>

NextVersion ==
    \/ bump_version
    \/ update_all
    \/ main_set

SpecVersion == InitVersion /\ [][NextVersion]_vars

(***************************************************************************)
(* Claims about the version manager                                        *)
(***************************************************************************)

\* Three runs of decimal digits separated by two dots, and nothing else.
ThreeDigitRuns(str) ==
    \E i, j \in 1..Len(str) :
        /\ 1 < i
        /\ i + 1 < j
        /\ j < Len(str)
        /\ str[i] = "."
        /\ str[j] = "."
        /\ \A k \in (1..Len(str)) \ {i, j} :
               str[k] \in {"0", "1", "2", "3", "4", "5", "6", "7", "8", "9"}

\* (major, minor, patch) order.
VersionGreater(a, b) ==
    \/ a[1] > b[1]
    \/ a[1] = b[1] /\ a[2] > b[2]
    \/ a[1] = b[1] /\ a[2] = b[2] /\ a[3] > b[3]

\* The version bump_version started from: the text of version.txt without
\* the surrounding whitespace, 0.1.0 when the file is missing.
StartVersion ==
    IF "version.txt" \in DOMAIN fs0 THEN Strip(fs0["version.txt"])
    ELSE <<"0", ".", "1", ".", "0">>

\* C16: from a current version M.m.p, bump_version returns (M+1).0.0 for
\* 'major', M.(m+1).0 for 'minor', M.m.(p+1) for 'patch' and raises
\* ValueError for any other bump type; a missing version.txt counts as
\* 0.1.0; the result is strictly greater than the current version.
C16_BumpVersion ==
    (pc = "done" /\ call.name = "bump_version" /\ ThreeDigitRuns(StartVersion)) =>
        LET v == VersionTuple(StartVersion) IN
        /\ call.bump_type = "major" =>
               ret = Returned(FormatVersion(v[1] + 1, 0, 0))
        /\ call.bump_type = "minor" =>
               ret = Returned(FormatVersion(v[1], v[2] + 1, 0))
        /\ call.bump_type = "patch" =>
               ret = Returned(FormatVersion(v[1], v[2], v[3] + 1))
        /\ call.bump_type \notin {"major", "minor", "patch"} =>
               ret = Raised("ValueError")
        /\ ret.kind = "return" =>
               /\ ThreeDigitRuns(ret.val)
               /\ VersionGreater(VersionTuple(ret.val), v)

\* A minor bump of 1.9.1, read from a version.txt that ends in a newline,
\* has returned 1.10.0.
C16_Witness ==
    /\ pc = "done"
    /\ call.name = "bump_version"
    /\ call.bump_type = "minor"
    /\ "version.txt" \in DOMAIN fs0
    /\ fs0["version.txt"] = <<"1", ".", "9", ".", "1">>
    /\ ret = Returned(<<"1", ".", "1", "0", ".", "0">>)

\* C17: update_all(new_version, dry_run=True) leaves version.txt, README.md
\* and CHANGELOG.md exactly as they were and creates no file.
C17_DryRunChangesNothing ==
    (pc = "done" /\ call.name = "update_all" /\ call.dry_run) => fs = fs0

\* A dry run has gone over a project whose README.md has a badge and whose
\* CHANGELOG.md has an entry, with no version.txt to begin with.
C17_Witness ==
    /\ pc = "done"
    /\ call.name = "update_all"
    /\ call.dry_run
    /\ DOMAIN fs0 = {"README.md", "CHANGELOG.md"}
    /\ fs0["README.md"].badge # <<>>
    /\ fs0["CHANGELOG.md"].entries # <<>>
    /\ call.new_version # fs0["README.md"].badge

\* C18: --set accepts exactly the strings of three dot-separated runs of
\* decimal digits; for any other string the program exits with status 1
\* and the three files are left unchanged.
C18_SetAcceptsOnlyVersions ==
    (pc = "done" /\ call.name = "main_set") =>
        /\ ThreeDigitRuns(call.version) => ret.val = 0
        /\ ~ThreeDigitRuns(call.version) => (ret.val = 1 /\ fs = fs0)

(***************************************************************************)
(* generate-jupyter-token.py and generate-postgres-password.py             *)
(*                                                                         *)
(* The .env file is the list of lines readlines() gives: a line has an     *)
(* optional leading blank, a key, the pieces of text after '=', and a      *)
(* final newline that only the last line of a file may lack.  Standard     *)
(* output is the list of printed lines, each a tuple of its pieces.        *)
(***************************************************************************)

\* Largest number of lines in the .env file before a run.
MaxEnvLines == 2

Secrets == {"s3cr3tA", "s3cr3tB"}

EnvKeys == {"JUPYTER_TOKEN", "POSTGRES_PASSWORD", "OTHER"}

EnvLine(lead, key, val, nl) == [lead |-> lead, key |-> key, val |-> val, nl |-> nl]

EnvLines == {EnvLine(lead, key, <<"old">>, nl) : lead \in BOOLEAN, key \in EnvKeys, nl \in BOOLEAN}

\* What readlines() can give: every line but the last ends in a newline.
EnvContents ==
    {c \in UNION {[1..n -> EnvLines] : n \in 0..MaxEnvLines} :
        \A i \in 1..(Len(c) - 1) : c[i].nl}

EnvFiles == {<<>>} \cup {File(".env", c) : c \in EnvContents}

\* f"KEY={secret}\n"
SecretLine(key, secret) == EnvLine(FALSE, key, <<secret>>, TRUE)

\* The characters of a line up to its newline.
LineText(line) ==
    (IF line.lead THEN <<" ">> ELSE <<>>) \o <<line.key, "=">> \o line.val

\* Text written after content: it continues the last line when that line
\* has no newline.
Cat(content, line) ==
    IF content # <<>> /\ ~content[Len(content)].nl
    THEN [content EXCEPT ![Len(content)] =
              [@ EXCEPT !.val = @ \o LineText(line), !.nl = line.nl]]
    ELSE Append(content, line)

\* f.writelines(lines) into an empty file, as readlines() sees it next.
RECURSIVE WriteLines(_)
WriteLines(lines) ==
    IF lines = <<>> THEN <<>>
    ELSE Cat(WriteLines(SubSeq(lines, 1, Len(lines) - 1)), lines[Len(lines)])

\* How the run is made to fail: reading .env, writing it, or chmod.
Failures == {"none", "read", "write", "chmod"}

\* str(e) of the OSError: errno text and path.
ErrorText(fail) == <<"Errno", fail, ".env">>

Outcome(files, printed, result) == [files |-> files, out |-> printed, ret |-> result]

\* A generate_secure_token that shows what it generated.
GeneratedLine_ShowsToken(token) == <<"token generated: ", token>>

\* The print of generate_secure_token.
GeneratedLine(token) ==
    <<"token generated successfully. Set JUPYTER_TOKEN environment variable.">>

\* line.startswith("JUPYTER_TOKEN=")
IsTokenLine(line) == ~line.lead /\ line.key = "JUPYTER_TOKEN"

\* save_token_to_env(token): the first JUPYTER_TOKEN line is replaced and the
\* file rewritten; without one the line is appended.
SaveToken(files, token, fail) ==
    LET exists == ".env" \in DOMAIN files
        lines == IF exists THEN files[".env"] ELSE <<>>
        found == {i \in 1..Len(lines) : IsTokenLine(lines[i])} IN
    IF exists /\ fail = "read" THEN Outcome(files, <<>>, Raised("OSError"))
    ELSE IF fail = "write" THEN Outcome(files, <<>>, Raised("OSError"))
    ELSE IF found # {}
    THEN LET first == CHOOSE i \in found : \A j \in found : i <= j IN
         Outcome(WriteFile(files, ".env",
                     WriteLines([lines EXCEPT ![first] = SecretLine("JUPYTER_TOKEN", token)])),
                 <<<<"Token updated in ", ".env">>>>,
                 Returned(NoneVal))
    ELSE Outcome(WriteFile(files, ".env", Cat(lines, SecretLine("JUPYTER_TOKEN", token))),
                 <<<<"Token saved to ", ".env">>>>,
                 Returned(NoneVal))

\* generate-jupyter-token.py run as a script.
RunTokenScript(files, token, fail) ==
    LET saved == SaveToken(files, token, fail) IN
    Outcome(saved.files,
            <<GeneratedLine(token)>> \o saved.out \o
                (IF saved.ret.kind = "return" THEN <<<<"process completed.">>>> ELSE <<>>),
            IF saved.ret.kind = "return" THEN [kind |-> "exit", val |-> 0]
            ELSE [kind |-> "exit", val |-> 1])

\* line.strip().startswith('POSTGRES_PASSWORD=')
IsPasswordLine(line) == line.key = "POSTGRES_PASSWORD"

\* save_password_to_env(password): every POSTGRES_PASSWORD line is replaced,
\* one is added when there was none, the file is rewritten and chmod-ed; any
\* exception is printed and gives False.
SavePassword(files, password, fail) ==
    LET exists == ".env" \in DOMAIN files
        env_lines == IF exists THEN files[".env"] ELSE <<>>
        replaced == [i \in 1..Len(env_lines) |->
                        IF IsPasswordLine(env_lines[i])
                        THEN SecretLine("POSTGRES_PASSWORD", password)
                        ELSE env_lines[i]]
        updated_lines == IF \E i \in 1..Len(env_lines) : IsPasswordLine(env_lines[i])
                         THEN replaced
                         ELSE Append(replaced, SecretLine("POSTGRES_PASSWORD", password))
        failed == <<<<"Error saving password to .env file: ">> \o ErrorText(fail)>> IN
    IF exists /\ fail = "read" THEN Outcome(files, failed, Returned(FALSE))
    ELSE IF fail = "write" THEN Outcome(files, failed, Returned(FALSE))
    ELSE IF fail = "chmod"
    THEN Outcome(WriteFile(files, ".env", WriteLines(updated_lines)), failed, Returned(FALSE))
    ELSE Outcome(WriteFile(files, ".env", WriteLines(updated_lines)), <<>>, Returned(TRUE))

PasswordBanner ==
    << <<"Generating PostgreSQL Password...">>,
       <<"   Security Level: 384-bit (Very Strong)">>,
       <<"   Length: 64 characters">>,
       <<"">> >>

PasswordSuccess ==
    << <<"PostgreSQL password generated successfully!">>,
       <<"Saved to .env file as POSTGRES_PASSWORD">>,
       <<"Password stored securely (not displayed)">>,
       <<"">>,
       <<"Next Steps:">>,
       <<"   1. Restart Docker services to use new password">>,
       <<"   2. Use secure recovery scripts if password access needed">>,
       <<"   3. Update any external database connections">>,
       <<"">>,
       <<"Security Notice:">>,
       <<"   - Password has 384-bit cryptographic strength">>,
       <<"   - No sensitive information logged or displayed">>,
       <<"   - Use 'python scripts/get-postgres-password-secure.py' for secure recovery">> >>

PasswordFailure ==
    << <<"Failed to save password to .env file">>,
       <<"   Please check file permissions and try again">> >>

\* main of generate-postgres-password.py, run as a script.
RunPasswordScript(files, password, fail) ==
    LET saved == SavePassword(files, password, fail) IN
    IF saved.ret.val
    THEN Outcome(saved.files, PasswordBanner \o saved.out \o PasswordSuccess,
                 [kind |-> "exit", val |-> 0])
    ELSE Outcome(saved.files, PasswordBanner \o saved.out \o PasswordFailure,
                 [kind |-> "exit", val |-> 1])

SecretCalls ==
    {[name |-> n, secret |-> x, fail |-> f] :
        n \in {"generate_jupyter_token", "generate_postgres_password"},
        x \in Secrets,
        f \in Failures}

InitSecret ==
    /\ IdleAuth
    /\ IdlePath
    /\ call \in SecretCalls
    /\ ret = Returned(NoneVal)
    /\ pc = "ready"
    /\ effects = <<>>
    /\ fs \in EnvFiles
    /\ fs0 = fs
    /\ out = <<>>

\* secrets.token_urlsafe(48) has given call.secret.
generate_jupyter_token ==
    /\ pc = "ready"
    /\ call.name = "generate_jupyter_token"
    /\ LET run == RunTokenScript(fs, call.secret, call.fail) IN
       /\ fs' = run.files
       /\ out' = run.out
       /\ ret' = run.ret
    /\ pc' = "done"
    /\ UNCHANGED <<call, effects, fs0, links, dirs, dirs0, authVars>>

generate_postgres_password ==
    /\ pc = "ready"
    /\ call.name = "generate_postgres_password"
    /\ LET run == RunPasswordScript(fs, call.secret, call.fail) IN
       /\ fs' = run.files
       /\ out' = run.out
       /\ ret' = run.ret
    /\ pc' = "done"
    /\ UNCHANGED <<call, effects, fs0, links, dirs, dirs0, authVars>>

NextSecret ==
    \/ generate_jupyter_token
    \/ generate_postgres_password

SpecSecret == InitSecret /\ [][NextSecret]_vars

(***************************************************************************)
(* Claims about the secret generators                                      *)
(***************************************************************************)

\* What the same run prints when secret is the generated value.
StdoutWith(secret) ==
    IF call.name = "generate_jupyter_token"
    THEN RunTokenScript(fs0, secret, call.fail).out
    ELSE RunPasswordScript(fs0, secret, call.fail).out

Mentions(text, secret) == \E i \in 1..Len(text) : text[i] = secret

\* C19: whatever secret was generated, on the success path and on the
\* save-failure path, a run of either generator prints the same text; the
\* secret appears in no printed line and, after a successful run, stands in
\* the .env file.
C19_SecretNotDisplayed ==
    (pc = "done" /\ call.name \in {"generate_jupyter_token", "generate_postgres_password"}) =>
        /\ \A secret \in Secrets : out = StdoutWith(secret)
        /\ \A i \in 1..Len(out) : ~Mentions(out[i], call.secret)
        /\ ret.val = 0 =>
               /\ ".env" \in DOMAIN fs
               /\ \E i \in 1..Len(fs[".env"]) : Mentions(fs[".env"][i].val, call.secret)

\* The password generator has written the password to .env, failed in
\* chmod, and printed the error and the failure text.
C19_Witness ==
    /\ pc = "done"
    /\ call.name = "generate_postgres_password"
    /\ call.fail = "chmod"
    /\ ret.val = 1
    /\ Len(out) = 7
    /\ ".env" \in DOMAIN fs
    /\ \E i \in 1..Len(fs[".env"]) : Mentions(fs[".env"][i].val, call.secret)

(***************************************************************************)
(* utils.py: save_dataframe and load_dataframe                             *)
(*                                                                         *)
(* Here fs maps the path of a data file to the frame it holds, dirs is the *)
(* set of existing directories and effects lists the pandas readers and    *)
(* writers called, each with its path.                                     *)
(***************************************************************************)

\* The spelling of the file names tried: letter runs and dots.
NamePieces ==
    [name \in {"data.csv", "DATA.CSV", "data.parquet", "data.Parquet", "data.xlsx",
               "data.xls", "data.XLS", "data.json", "data.tar.json", "data.csv.bak",
               "data.txt", "data", ".csv", "data."} |->
        CASE name = "data.csv"      -> <<"data", ".", "csv">>
          [] name = "DATA.CSV"      -> <<"DATA", ".", "CSV">>
          [] name = "data.parquet"  -> <<"data", ".", "parquet">>
          [] name = "data.Parquet"  -> <<"data", ".", "Parquet">>
          [] name = "data.xlsx"     -> <<"data", ".", "xlsx">>
          [] name = "data.xls"      -> <<"data", ".", "xls">>
          [] name = "data.XLS"      -> <<"data", ".", "XLS">>
          [] name = "data.json"     -> <<"data", ".", "json">>
          [] name = "data.tar.json" -> <<"data", ".", "tar", ".", "json">>
          [] name = "data.csv.bak"  -> <<"data", ".", "csv", ".", "bak">>
          [] name = "data.txt"      -> <<"data", ".", "txt">>
          [] name = "data"          -> <<"data">>
          [] name = ".csv"          -> <<".", "csv">>
          [] name = "data."         -> <<"data", ".">>]

FrameNames == DOMAIN NamePieces

\* Path.suffix: from the last dot of the name on, unless that dot starts or
\* ends the name.
Suffix(pieces) ==
    LET dots == {i \in 1..Len(pieces) : pieces[i] = "."} IN
    IF dots = {} THEN <<>>
    ELSE LET i == CHOOSE d \in dots : \A e \in dots : e <= d IN
         IF 1 < i /\ i < Len(pieces) THEN SubSeq(pieces, i, Len(pieces)) ELSE <<>>

UpperToLower == [piece \in {"DATA", "CSV", "Parquet", "XLS"} |->
                    CASE piece = "DATA"    -> "data"
                      [] piece = "CSV"     -> "csv"
                      [] piece = "Parquet" -> "parquet"
                      [] piece = "XLS"     -> "xls"]

\* str.lower()
Lower(text) ==
    [i \in 1..Len(text) |->
        IF text[i] \in DOMAIN UpperToLower THEN UpperToLower[text[i]] ELSE text[i]]

\* file_path.suffix.lower() of a resolved path.
PathSuffix(file_path) ==
    IF file_path = <<>> \/ file_path[Len(file_path)] \notin FrameNames THEN <<>>
    ELSE Lower(Suffix(NamePieces[file_path[Len(file_path)]]))

\* The if / elif chain of save_dataframe: the writer's format, none for the
\* else branch.
SaveFormat(suffix) ==
    IF suffix = <<".", "csv">> THEN {"csv"}
    ELSE IF suffix = <<".", "parquet">> THEN {"parquet"}
    ELSE IF suffix \in {<<".", "xlsx">>, <<".", "xls">>} THEN {"excel"}
    ELSE IF suffix = <<".", "json">> THEN {"json"}
    ELSE {}

\* A load chain that lacks '.xls'.
LoadFormat_NoXls(suffix) ==
    IF suffix = <<".", "csv">> THEN {"csv"}
    ELSE IF suffix = <<".", "parquet">> THEN {"parquet"}
    ELSE IF suffix \in {<<".", "xlsx">>} THEN {"excel"}
    ELSE IF suffix = <<".", "json">> THEN {"json"}
    ELSE {}

\* The if / elif chain of load_dataframe.
LoadFormat(suffix) ==
    IF suffix = <<".", "csv">> THEN {"csv"}
    ELSE IF suffix = <<".", "parquet">> THEN {"parquet"}
    ELSE IF suffix \in {<<".", "xlsx">>, <<".", "xls">>} THEN {"excel"}
    ELSE IF suffix = <<".", "json">> THEN {"json"}
    ELSE {}

PandasCall(direction, format, file_path) ==
    [direction |-> direction, format |-> format, path |-> file_path]

\* file_path.exists()
PathExists(files, d, file_path) == file_path \in DOMAIN files \/ file_path \in d

FrameDirs == {<<>>, <<"sub">>, <<"..", "..", "..">>}

FrameFileNames == {[abs |-> FALSE, segs |-> Append(d, n)] : d \in FrameDirs, n \in FrameNames}

OldFrame == <<"df0">>

NewFrame == <<"df1">>

FrameCalls ==
    {[name |-> "save_dataframe", df |-> NewFrame, filename |-> f, dir_type |-> t] :
        f \in FrameFileNames, t \in DataTypeInputs}
    \cup {[name |-> "load_dataframe", filename |-> f, dir_type |-> t] :
             f \in FrameFileNames, t \in DataTypeInputs}

\* The project before the call: the data file is there with its
\* directories, or only the project root is.
FrameStates(c) ==
    LET target == DataPathOutcome(NoLinks, c.filename, c.dir_type) IN
    {[files |-> <<>>, dirs |-> Prefixes(get_project_root)]}
    \cup (IF target.kind = "return"
          THEN {[files |-> File(target.val, OldFrame), dirs |-> Prefixes(Parent(target.val))]}
          ELSE {})

InitFrame ==
    /\ IdleAuth
    /\ call \in FrameCalls
    /\ ret = Returned(NoneVal)
    /\ pc = "ready"
    /\ links = NoLinks
    /\ \E st \in FrameStates(call) :
           /\ fs = st.files
           /\ dirs = st.dirs
    /\ dirs0 = dirs
    /\ fs0 = fs
    /\ effects = <<>>
    /\ out = <<>>

save_dataframe ==
    /\ pc = "ready"
    /\ call.name = "save_dataframe"
    /\ pc' = "done"
    /\ LET located == DataPathOutcome(links, call.filename, call.dir_type) IN
       IF located.kind = "raise"
       THEN /\ ret' = located
            /\ UNCHANGED <<dirs, fs, effects>>
       ELSE LET file_path == located.val
                format == SaveFormat(PathSuffix(file_path)) IN
            /\ dirs' = MkdirParents(dirs, Parent(file_path))
            /\ IF format = {}
               THEN /\ ret' = Raised("ValueError")
                    /\ UNCHANGED <<fs, effects>>
               ELSE /\ effects' = Append(effects,
                                         PandasCall("to", CHOOSE f \in format : TRUE, file_path))
                    /\ fs' = WriteFile(fs, file_path, call.df)
                    /\ ret' = Returned(NoneVal)
    /\ UNCHANGED <<call, links, dirs0, fs0, out, authVars>>

load_dataframe ==
    /\ pc = "ready"
    /\ call.name = "load_dataframe"
    /\ pc' = "done"
    /\ LET located == DataPathOutcome(links, call.filename, call.dir_type) IN
       IF located.kind = "raise"
       THEN /\ ret' = located
            /\ UNCHANGED effects
       ELSE LET file_path == located.val
                format == LoadFormat(PathSuffix(file_path)) IN
            IF ~PathExists(fs, dirs, file_path)
            THEN /\ ret' = Raised("FileNotFoundError")
                 /\ UNCHANGED effects
            ELSE IF format = {}
            THEN /\ ret' = Raised("ValueError")
                 /\ UNCHANGED effects
            ELSE /\ effects' = Append(effects,
                                      PandasCall("read", CHOOSE f \in format : TRUE, file_path))
                 /\ ret' = Returned(fs[file_path])
    /\ UNCHANGED <<call, links, dirs, dirs0, fs, fs0, out, authVars>>

NextFrame ==
    \/ save_dataframe
    \/ load_dataframe

SpecFrame == InitFrame /\ [][NextFrame]_vars

(***************************************************************************)
(* Claims about save_dataframe and load_dataframe                          *)
(***************************************************************************)

\* The formats of the specification, by lower-cased suffix.
FormatTable ==
    [suffix \in {<<".", "csv">>, <<".", "parquet">>, <<".", "xlsx">>, <<".", "xls">>,
                 <<".", "json">>} |->
        CASE suffix = <<".", "csv">>     -> "csv"
          [] suffix = <<".", "parquet">> -> "parquet"
          [] suffix = <<".", "xlsx">>    -> "excel"
          [] suffix = <<".", "xls">>     -> "excel"
          [] suffix = <<".", "json">>    -> "json"]

\* A text with its capital letters replaced by small ones.
LowerCased(text) ==
    [i \in 1..Len(text) |->
        CASE text[i] = "DATA"    -> "data"
          [] text[i] = "CSV"     -> "csv"
          [] text[i] = "Parquet" -> "parquet"
          [] text[i] = "XLS"     -> "xls"
          [] OTHER               -> text[i]]

\* The path the call is about, when get_data_path gives one.
FramePath == DataPathOutcome(NoLinks, call.filename, call.dir_type)

RaisedError(e) == ret.kind = "raise" /\ ret.val = e

\* C20: both functions choose the pandas writer or reader by the
\* lower-cased suffix over .csv, .parquet, .xlsx, .xls and .json; any other
\* suffix, or none, gives ValueError with no data file written or read; a
\* load of a file that does not exist gives FileNotFoundError whatever the
\* suffix.
C20_SuffixDispatch ==
    (pc = "done" /\ call.name \in {"save_dataframe", "load_dataframe"}
                 /\ FramePath.kind = "return") =>
        LET file_path == FramePath.val
            suffix == LowerCased(Suffix(NamePieces[file_path[Len(file_path)]])) IN
        /\ (call.name = "save_dataframe" /\ suffix \in DOMAIN FormatTable) =>
               /\ effects = <<PandasCall("to", FormatTable[suffix], file_path)>>
               /\ ret.kind = "return"
        /\ (call.name = "save_dataframe" /\ suffix \notin DOMAIN FormatTable) =>
               /\ RaisedError("ValueError")
               /\ effects = <<>>
               /\ fs = fs0
        /\ (call.name = "load_dataframe" /\ file_path \notin DOMAIN fs0) =>
               /\ RaisedError("FileNotFoundError")
               /\ effects = <<>>
        /\ (call.name = "load_dataframe" /\ file_path \in DOMAIN fs0
                                        /\ suffix \in DOMAIN FormatTable) =>
               /\ effects = <<PandasCall("read", FormatTable[suffix], file_path)>>
               /\ ret.kind = "return"
        /\ (call.name = "load_dataframe" /\ file_path \in DOMAIN fs0
                                        /\ suffix \notin DOMAIN FormatTable) =>
               /\ RaisedError("ValueError")
               /\ effects = <<>>
        /\ call.name = "load_dataframe" => fs = fs0

\* An existing sub/data.XLS has been loaded through the excel reader.
C20_Witness ==
    /\ pc = "done"
    /\ call.name = "load_dataframe"
    /\ call.filename.segs = <<"sub", "data.XLS">>
    /\ ret.kind = "return"
    /\ ret.val = OldFrame
    /\ Len(effects) = 1
    /\ effects[1].format = "excel"

(***************************************************************************)
(* data_processing.py: the wrappers of require_permission and require_role *)
(* taken one call at a time                                                *)
(*                                                                         *)
(* The session table is any table create_session can have built.  A call   *)
(* hands a token over by keyword, in the session_token position, both ways *)
(* or not at all.  effects lists, in order, the audit-log records the      *)
(* wrapper writes and the start of the wrapped body.                       *)
(***************************************************************************)

\* Every table create_session calls can leave behind.
SessionTables ==
    UNION {{[t \in held |-> NewSession(t[2], role[t], t[3])] :
               role \in [held -> DOMAIN ROLES]} : held \in SUBSET Tokens}

GuardCalls ==
    {[name |-> f, token |-> kw, pos |-> p] :
        f \in GuardedFunctions, kw \in TokenValues \cup {Absent}, p \in TokenValues \cup {Absent}}
    \cup {[name |-> "require_role", required_role |-> r, token |-> kw, pos |-> p] :
             r \in RoleInputs, kw \in TokenValues \cup {Absent}, p \in TokenValues \cup {Absent}}

\* audit_logger.warning(...) / audit_logger.info(...)
AuditRecord(level, message, func) ==
    [kind |-> "log", level |-> level, message |-> message, func |-> func]

\* func(*args, **kwargs_cleaned) is entered.
BodyStart(func) == [kind |-> "body", func |-> func]

\* session_token = kwargs.get('session_token'): positional arguments are
\* not looked at.
WrapperToken(c) == KwargsGet(c.token)

\* A role check in which admin passes for every required role.
RoleOutcome_AdminPasses(tbl, required_role, session_token) ==
    LET session == GetSession(tbl, session_token) IN
    IF Falsy(session_token) THEN "AuthenticationError"
    ELSE IF session = {} THEN "AuthenticationError"
    ELSE IF (CHOOSE x \in session : TRUE).role \notin {required_role, "admin"}
         THEN "AuthorizationError"
    ELSE "run"

\* The outcome of require_role(required_role)'s wrapper, in the order of its
\* checks: token present, session found, role equal.
RoleOutcome(tbl, required_role, session_token) ==
    LET session == GetSession(tbl, session_token) IN
    IF Falsy(session_token) THEN "AuthenticationError"
    ELSE IF session = {} THEN "AuthenticationError"
    ELSE IF (CHOOSE x \in session : TRUE).role # required_role THEN "AuthorizationError"
    ELSE "run"

\* A wrapper that enters the body before it writes the 'Authorized' record.
WrapperEvents_BodyFirst(tbl, outcome, session_token, func) ==
    IF outcome = "run"
    THEN <<BodyStart(func), AuditRecord("INFO", "Authorized", func)>>
    ELSE <<AuditRecord("WARNING", outcome, func)>>

\* What either wrapper does besides raising or returning: one warning on
\* each rejecting branch; the info record, then the body, when it admits.
WrapperEvents(tbl, outcome, session_token, func) ==
    IF Falsy(session_token)
    THEN <<AuditRecord("WARNING", "Authentication required", func)>>
    ELSE IF GetSession(tbl, session_token) = {}
    THEN <<AuditRecord("WARNING", "Invalid or expired session", func)>>
    ELSE IF outcome = "AuthorizationError"
    THEN <<AuditRecord("WARNING", "Denied", func)>>
    ELSE <<AuditRecord("INFO", "Authorized", func), BodyStart(func)>>

InitGuard ==
    /\ sessions \in SessionTables
    /\ now = 0
    /\ bodyRan = FALSE
    /\ issued = DOMAIN sessions
    /\ revoked = {}
    /\ prev = sessions
    /\ call \in GuardCalls
    /\ ret = Returned(NoneVal)
    /\ pc = "ready"
    /\ IdlePath
    /\ effects = <<>>
    /\ fs = <<>>
    /\ fs0 = <<>>
    /\ out = <<>>

\* One call of a function wrapped by require_permission.
permission_wrapper ==
    /\ pc = "ready"
    /\ call.name \in GuardedFunctions
    /\ LET session_token == WrapperToken(call)
           outcome == PermissionOutcome(sessions, RequiredPermission[call.name], call.token) IN
       /\ effects' = effects \o WrapperEvents(sessions, outcome, session_token, call.name)
       /\ bodyRan' = (outcome = "run")
       /\ ret' = IF outcome = "run" THEN Returned("result") ELSE Raised(outcome)
    /\ pc' = "done"
    /\ UNCHANGED <<sessions, now, issued, revoked, prev, call, links, dirs, dirs0, fs, fs0, out>>

\* One call of a function wrapped by require_role(call.required_role).
role_wrapper ==
    /\ pc = "ready"
    /\ call.name = "require_role"
    /\ LET session_token == WrapperToken(call)
           outcome == RoleOutcome(sessions, call.required_role, session_token) IN
       /\ effects' = effects \o WrapperEvents(sessions, outcome, session_token, call.name)
       /\ bodyRan' = (outcome = "run")
       /\ ret' = IF outcome = "run" THEN Returned("result") ELSE Raised(outcome)
    /\ pc' = "done"
    /\ UNCHANGED <<sessions, now, issued, revoked, prev, call, links, dirs, dirs0, fs, fs0, out>>

NextGuard ==
    \/ permission_wrapper
    \/ role_wrapper

SpecGuard == InitGuard /\ [][NextGuard]_vars

(***************************************************************************)
(* Claims about the wrappers                                               *)
(***************************************************************************)

\* C21: the body of a function wrapped by require_role(r) runs if and only
\* if the token is a key of the session table and that session's role is
\* exactly r; any other role, admin included, gets AuthorizationError; a
\* missing or unknown token gets AuthenticationError.
C21_RoleDecides ==
    (pc = "done" /\ call.name = "require_role") =>
        LET known == call.token \in DOMAIN sessions IN
        /\ bodyRan <=> (known /\ sessions[call.token].role = call.required_role)
        /\ (known /\ sessions[call.token].role # call.required_role) =>
               (ret.kind = "raise" /\ ret.val = "AuthorizationError")
        /\ ~known => (ret.kind = "raise" /\ ret.val = "AuthenticationError")

\* An admin session has been refused a function that requires the viewer
\* role.
C21_Witness ==
    /\ pc = "done"
    /\ call.name = "require_role"
    /\ call.required_role = "viewer"
    /\ call.token \in DOMAIN sessions
    /\ sessions[call.token].role = "admin"
    /\ ret.val = "AuthorizationError"
    /\ ~bodyRan

Records == {i \in 1..Len(effects) : effects[i].kind = "log"}

Bodies == {i \in 1..Len(effects) : effects[i].kind = "body"}

\* C22: each call of a guarded function writes exactly one audit record,
\* a WARNING when it is rejected and an INFO 'Authorized' when it is
\* admitted, and the body starts only after that 'Authorized' record.
C22_AuditedFirst ==
    (pc = "done" /\ call.name \in GuardedFunctions \cup {"require_role"}) =>
        /\ Cardinality(Records) = 1
        /\ ret.kind = "raise" =>
               /\ \A i \in Records : effects[i].level = "WARNING"
               /\ Bodies = {}
        /\ ret.kind = "return" =>
               \A i \in Records : effects[i].level = "INFO" /\ effects[i].message = "Authorized"
        /\ \A b \in Bodies :
               \E i \in Records : i < b /\ effects[i].message = "Authorized"
        /\ bodyRan <=> Bodies # {}

\* split_data has been admitted for a data_scientist session: the record,
\* then the body.
C22_Witness ==
    /\ pc = "done"
    /\ call.name = "split_data"
    /\ bodyRan
    /\ Len(effects) = 2
    /\ effects[1].level = "INFO"
    /\ effects[2].kind = "body"

\* C26: a call that hands an active session's token over in the
\* session_token position is admitted or rejected exactly as the same call
\* handing it over as session_token=<token>.
C26_PositionalToken ==
    (pc = "done" /\ call.name \in GuardedFunctions
                 /\ call.token = Absent /\ call.pos \in DOMAIN sessions) =>
        LET keyword == PermissionOutcome(sessions, RequiredPermission[call.name], call.pos) IN
        /\ bodyRan <=> keyword = "run"
        /\ ret.kind = "raise" => ret.val = keyword

(***************************************************************************)
(* get-postgres-password-secure.py: interactive_secure_method              *)
(*                                                                         *)
(* A typed line is the sequence of its blanks and words.  effects lists    *)
(* the input() calls made, each with the line typed; out the printed       *)
(* lines.                                                                  *)
(***************************************************************************)

\* Lines the user types at a prompt.
TypedLines ==
    {<<"ACCESS">>, <<" ", "ACCESS">>, <<"POSTGRES">>, <<"POSTGRES", " ">>,
     <<"SECURE">>, <<"\t", "SECURE", " ">>, <<"access">>, <<>>, <<"no">>}

\* input() gives a line, or raises EOFError when standard input is closed.
InputResults == {[kind |-> "line", text |-> t] : t \in TypedLines} \cup {[kind |-> "eof"]}

InputCall(step, result) == [kind |-> "input", step |-> step, result |-> result]

\* The word each step asks for.
StepWord == <<"ACCESS", "POSTGRES", "SECURE">>

\* A comparison that takes a word in any case.
Confirms_AnyCase(line, step) ==
    Strip(line) = <<StepWord[step]>> \/ (step = 1 /\ Strip(line) = <<"access">>)

\* response = input(...).strip(); response == word
Confirms(line, step) == Strip(line) = <<StepWord[step]>>

InteractiveBanner ==
    << <<"Ultra-Secure Password Recovery - Interactive Secure Method">>,
       <<"==================================================================">>,
       <<"">>,
       <<"MEDIUM SECURITY LEVEL">>,
       <<"Multi-step confirmation process">>,
       <<"Requires multiple security confirmations">>,
       <<"">> >>

StepConfirmed ==
    << <<"Step 1 confirmed - Access request acknowledged">>,
       <<"Step 2 confirmed - Database type verified">> >>

StepDenied ==
    << <<"Access denied - Step 1 failed">>,
       <<"Access denied - Step 2 failed">>,
       <<"Access denied - Step 3 failed">> >>

PasswordDisplay(password) ==
    << <<"">>,
       <<"All confirmations successful!">>,
       <<"Displaying PostgreSQL password:">>,
       <<"">>,
       <<"============================================================">>,
       <<"POSTGRESQL PASSWORD:">>,
       <<"   ", password>>,
       <<"============================================================">>,
       <<"">>,
       <<"Security Reminder:">>,
       <<"   - Use password immediately">>,
       <<"   - Clear terminal history if needed">>,
       <<"   - Don't share or log this password">>,
       <<"">> >>

InitInteractive ==
    /\ IdleAuth
    /\ IdlePath
    /\ call \in {[name |-> "interactive_secure_method", password |-> p] : p \in Secrets}
    /\ ret = Returned(NoneVal)
    /\ pc = "ready"
    /\ effects = <<>>
    /\ fs = <<>>
    /\ fs0 = <<>>
    /\ out = <<>>

\* The prints before the first prompt.
interactive_begin ==
    /\ pc = "ready"
    /\ call.name = "interactive_secure_method"
    /\ out' = out \o InteractiveBanner
    /\ pc' = "step1"
    /\ UNCHANGED <<call, ret, effects, fs, fs0, links, dirs, dirs0, authVars>>

\* One prompt, the line read and the test on it.
AskStep(step, next) ==
    \E result \in InputResults :
        /\ effects' = Append(effects, InputCall(step, result))
        /\ IF result.kind = "eof"
           THEN /\ ret' = Raised("EOFError")
                /\ pc' = "done"
                /\ UNCHANGED out
           ELSE IF ~Confirms(result.text, step)
           THEN /\ out' = Append(out, StepDenied[step])
                /\ ret' = Returned(FALSE)
                /\ pc' = "done"
           ELSE IF step < 3
           THEN /\ out' = Append(out, StepConfirmed[step])
                /\ pc' = next
                /\ UNCHANGED ret
           ELSE /\ out' = out \o PasswordDisplay(call.password)
                /\ ret' = Returned(TRUE)
                /\ pc' = "done"
        /\ UNCHANGED <<call, fs, fs0, links, dirs, dirs0, authVars>>

interactive_step1 == pc = "step1" /\ AskStep(1, "step2")

interactive_step2 == pc = "step2" /\ AskStep(2, "step3")

interactive_step3 == pc = "step3" /\ AskStep(3, "done")

NextInteractive ==
    \/ interactive_begin
    \/ interactive_step1
    \/ interactive_step2
    \/ interactive_step3

SpecInteractive == InitInteractive /\ [][NextInteractive]_vars

(***************************************************************************)
(* Claims about interactive_secure_method                                  *)
(***************************************************************************)

PasswordShown == \E i \in 1..Len(out) : Mentions(out[i], call.password)

\* The lines typed so far, in order.
Typed(i) == effects[i].result.text

AllLines == \A i \in 1..Len(effects) : effects[i].result.kind = "line"

\* The claim as written: the password is printed only after exactly
\* 'ACCESS', 'POSTGRES' and 'SECURE' were entered in that order, and the
\* first line that differs ends the function with False, no further prompt
\* and no password.
C23_ExactWordsOnly ==
    AllLines =>
        /\ PasswordShown =>
               /\ Len(effects) = 3
               /\ \A i \in 1..3 : Typed(i) = <<StepWord[i]>>
        /\ \A i \in 1..Len(effects) :
               Typed(i) # <<StepWord[i]>> =>
                   /\ Len(effects) = i
                   /\ pc = "done"
                   /\ ret.val = FALSE
                   /\ ~PasswordShown

\* A typed line without the blanks around it.
RECURSIVE Trimmed(_)
Trimmed(line) ==
    IF line # <<>> /\ Head(line) \in {" ", "\t"} THEN Trimmed(Tail(line))
    ELSE IF line # <<>> /\ line[Len(line)] \in {" ", "\t"}
    THEN Trimmed(SubSeq(line, 1, Len(line) - 1))
    ELSE line

\* C23: the password is printed only after the three lines entered were, in
\* order and apart from blanks around them, 'ACCESS', 'POSTGRES' and
\* 'SECURE'; the first line that is not its step's word ends the function
\* with False, no further prompt and no password.
C23_ConfirmationsInOrder ==
    AllLines =>
        /\ PasswordShown =>
               /\ Len(effects) = 3
               /\ \A i \in 1..3 : Trimmed(Typed(i)) = <<StepWord[i]>>
        /\ \A i \in 1..Len(effects) :
               Trimmed(Typed(i)) # <<StepWord[i]>> =>
                   /\ Len(effects) = i
                   /\ pc = "done"
                   /\ ret.val = FALSE
                   /\ ~PasswordShown

\* After 'ACCESS' and 'POSTGRES' the third line was 'access': the function
\* has returned False without printing the password.
C23_Witness ==
    /\ pc = "done"
    /\ Len(effects) = 3
    /\ AllLines
    /\ Typed(1) = <<"ACCESS">>
    /\ Typed(2) = <<"POSTGRES">>
    /\ Typed(3) = <<"access">>
    /\ ret.val = FALSE
    /\ ~PasswordShown

(***************************************************************************)
(* tests/test_docker_setup.py: DockerJupyterTester.run_all_tests           *)
(*                                                                         *)
(* effects lists the methods run_all_tests has invoked, each with how it   *)
(* ended: it returned True, returned False, or raised.  While the method   *)
(* runs ret is "running"; inside the finally clause it holds the pending   *)
(* return or exception of the try block.                                   *)
(***************************************************************************)

StepOutcomes == {"pass", "fail", "raise"}

Invoked(step, outcome) == [kind |-> "step", step |-> step, outcome |-> outcome]

Running == [kind |-> "running", val |-> NoneVal]

\* The checks before the try statement, in order, and whether run_all_tests
\* returns False when the check does.
PreflightSteps ==
    << [step |-> "test_docker_availability", decides |-> TRUE],
       [step |-> "test_compose_file_syntax", decides |-> TRUE],
       [step |-> "test_environment_file",    decides |-> FALSE],
       [step |-> "start_services",           decides |-> TRUE] >>

\* The checks of the try block.
GuardedSteps ==
    << [step |-> "test_container_running",     decides |-> TRUE],
       [step |-> "test_jupyter_accessibility", decides |-> TRUE],
       [step |-> "test_jupyter_api",           decides |-> TRUE],
       [step |-> "test_volume_mounts",         decides |-> TRUE],
       [step |-> "test_python_environment",    decides |-> TRUE],
       [step |-> "create_test_notebook",       decides |-> FALSE] >>

InitDocker ==
    /\ IdleAuth
    /\ IdlePath
    /\ call = [name |-> "run_all_tests"]
    /\ ret = Running
    /\ pc = <<"preflight", 1>>
    /\ effects = <<>>
    /\ fs = <<>>
    /\ fs0 = <<>>
    /\ out = <<>>

\* A check outside the try statement: a False result or an exception leaves
\* run_all_tests at once.
preflight_step ==
    /\ pc[1] = "preflight"
    /\ \E outcome \in StepOutcomes :
           LET s == PreflightSteps[pc[2]] IN
           /\ effects' = Append(effects, Invoked(s.step, outcome))
           /\ IF outcome = "raise"
              THEN ret' = Raised("Exception") /\ pc' = <<"done", 0>>
              ELSE IF outcome = "fail" /\ s.decides
              THEN ret' = Returned(FALSE) /\ pc' = <<"done", 0>>
              ELSE /\ UNCHANGED ret
                   /\ pc' = IF pc[2] < Len(PreflightSteps)
                            THEN <<"preflight", pc[2] + 1>> ELSE <<"try", 1>>
    /\ UNCHANGED <<call, fs, fs0, out, links, dirs, dirs0, authVars>>

\* A check inside the try block: a False result or an exception goes to the
\* finally clause with the return or the exception pending.
guarded_step ==
    /\ pc[1] = "try"
    /\ \E outcome \in StepOutcomes :
           LET s == GuardedSteps[pc[2]] IN
           /\ effects' = Append(effects, Invoked(s.step, outcome))
           /\ IF outcome = "raise"
              THEN ret' = Raised("Exception") /\ pc' = <<"finally", 0>>
              ELSE IF outcome = "fail" /\ s.decides
              THEN ret' = Returned(FALSE) /\ pc' = <<"finally", 0>>
              ELSE /\ UNCHANGED ret
                   /\ pc' = IF pc[2] < Len(GuardedSteps)
                            THEN <<"try", pc[2] + 1>> ELSE <<"finally", 0>>
    /\ UNCHANGED <<call, fs, fs0, out, links, dirs, dirs0, authVars>>

\* finally: self.stop_services(), then the pending return or exception.
finally_stop_services ==
    /\ pc[1] = "finally"
    /\ \E outcome \in StepOutcomes :
           /\ effects' = Append(effects, Invoked("stop_services", outcome))
           /\ IF outcome = "raise"
              THEN ret' = Raised("Exception") /\ pc' = <<"done", 0>>
              ELSE IF ret.kind # "running"
              THEN UNCHANGED ret /\ pc' = <<"done", 0>>
              ELSE UNCHANGED ret /\ pc' = <<"summary", 0>>
    /\ UNCHANGED <<call, fs, fs0, out, links, dirs, dirs0, authVars>>

\* save_results and return summary['failed'] == 0.
summary_step ==
    /\ pc[1] = "summary"
    /\ \E outcome \in {"pass", "raise"} :
           /\ effects' = Append(effects, Invoked("save_results", outcome))
           /\ ret' = IF outcome = "raise" THEN Raised("Exception")
                     ELSE Returned(\A i \in 1..Len(effects) : effects[i].outcome # "fail")
           /\ pc' = <<"done", 0>>
    /\ UNCHANGED <<call, fs, fs0, out, links, dirs, dirs0, authVars>>

NextDocker ==
    \/ preflight_step
    \/ guarded_step
    \/ finally_stop_services
    \/ summary_step

SpecDocker == InitDocker /\ [][NextDocker]_vars

(***************************************************************************)
(* Claims about run_all_tests                                              *)
(***************************************************************************)

\* C24: once start_services has been invoked, whether it returned True or
\* False and whatever the later checks do, stop_services is invoked before
\* run_all_tests returns.
C24_ServicesAlwaysStopped ==
    (pc[1] = "done" /\ ret.kind = "return") =>
        \A i \in 1..Len(effects) :
            effects[i].step = "start_services" =>
                \E j \in (i + 1)..Len(effects) : effects[j].step = "stop_services"

(***************************************************************************)
(* Claims about create_session's tokens                                    *)
(***************************************************************************)

\* C25: the token a successful create_session returns is the token of no
\* session active at that moment, so the call adds exactly one entry and
\* leaves every existing session as it was.
C25_TokensUnique ==
    (call.name = "create_session" /\ ret.kind = "return") =>
        /\ ret.val \notin DOMAIN prev
        /\ DOMAIN sessions = DOMAIN prev \cup {ret.val}
        /\ \A t \in DOMAIN prev : sessions[t] = prev[t]

(***************************************************************************)
(* Saving a secret to .env and reading it back:                            *)
(* save_password_to_env / load_postgres_password and                       *)
(* save_token_to_env / get_jupyter_token                                   *)
(*                                                                         *)
(* effects keeps what the save returned; ret ends as what the reader       *)
(* returned, the text after '=' as its pieces.                             *)
(***************************************************************************)

\* The first of the matching lines, as a set: empty when none matches.
FirstLine(found) == {i \in found : \A j \in found : i <= j}

\* load_postgres_password: the text after '=' of the first stripped line
\* that starts with 'POSTGRES_PASSWORD=', None without one.
LoadPassword(files) ==
    IF ".env" \notin DOMAIN files THEN NoneVal
    ELSE LET lines == files[".env"]
             found == FirstLine({i \in 1..Len(lines) : IsPasswordLine(lines[i])}) IN
         IF found = {} THEN NoneVal ELSE lines[CHOOSE i \in found : TRUE].val

\* line.strip().startswith('JUPYTER_TOKEN=') in get_jupyter_token.
IsStrippedTokenLine(line) == line.key = "JUPYTER_TOKEN"

\* get_jupyter_token: the text after '=' of the first stripped line that
\* starts with 'JUPYTER_TOKEN=', None without one or when the text is empty.
GetJupyterToken(files) ==
    IF ".env" \notin DOMAIN files THEN NoneVal
    ELSE LET lines == files[".env"]
             found == FirstLine({i \in 1..Len(lines) : IsStrippedTokenLine(lines[i])}) IN
         IF found = {} THEN NoneVal
         ELSE LET token == lines[CHOOSE i \in found : TRUE].val IN
              IF token = <<>> THEN NoneVal ELSE token

Saved(result) == [kind |-> "saved", result |-> result]

EnvCalls ==
    {[name |-> n, secret |-> x, fail |-> f] :
        n \in {"postgres_password", "jupyter_token"}, x \in Secrets, f \in Failures}

InitEnv ==
    /\ IdleAuth
    /\ IdlePath
    /\ call \in EnvCalls
    /\ ret = Returned(NoneVal)
    /\ pc = "ready"
    /\ effects = <<>>
    /\ fs \in EnvFiles
    /\ fs0 = fs
    /\ out = <<>>

save_password_to_env ==
    /\ pc = "ready"
    /\ call.name = "postgres_password"
    /\ LET saved == SavePassword(fs, call.secret, call.fail) IN
       /\ fs' = saved.files
       /\ out' = out \o saved.out
       /\ effects' = Append(effects, Saved(saved.ret))
    /\ pc' = "saved"
    /\ UNCHANGED <<call, ret, fs0, links, dirs, dirs0, authVars>>

load_postgres_password ==
    /\ pc = "saved"
    /\ call.name = "postgres_password"
    /\ ret' = Returned(LoadPassword(fs))
    /\ pc' = "done"
    /\ UNCHANGED <<call, effects, fs, fs0, out, links, dirs, dirs0, authVars>>

save_token_to_env ==
    /\ pc = "ready"
    /\ call.name = "jupyter_token"
    /\ LET saved == SaveToken(fs, call.secret, call.fail) IN
       /\ fs' = saved.files
       /\ out' = out \o saved.out
       /\ effects' = Append(effects, Saved(saved.ret))
    /\ pc' = "saved"
    /\ UNCHANGED <<call, ret, fs0, links, dirs, dirs0, authVars>>

get_jupyter_token ==
    /\ pc = "saved"
    /\ call.name = "jupyter_token"
    /\ ret' = Returned(GetJupyterToken(fs))
    /\ pc' = "done"
    /\ UNCHANGED <<call, effects, fs, fs0, out, links, dirs, dirs0, authVars>>

NextEnv ==
    \/ save_password_to_env
    \/ load_postgres_password
    \/ save_token_to_env
    \/ get_jupyter_token

SpecEnv == InitEnv /\ [][NextEnv]_vars

(***************************************************************************)
(* Claims about the round trips                                            *)
(***************************************************************************)

\* C27: whatever the .env file held before, once save_password_to_env has
\* returned True, load_postgres_password returns exactly the password saved.
C27_PasswordRoundTrip ==
    (pc = "done" /\ call.name = "postgres_password"
                 /\ effects[1].result.kind = "return" /\ effects[1].result.val = TRUE) =>
        ret.val = <<call.secret>>

\* C28: whatever the env file held before, once save_token_to_env has
\* completed, get_jupyter_token returns exactly the token saved.
C28_TokenRoundTrip ==
    (pc = "done" /\ call.name = "jupyter_token" /\ effects[1].result.kind = "return") =>
        ret.val = <<call.secret>>

(***************************************************************************)
(* Claims about rejected path requests                                     *)
(***************************************************************************)

\* C29: when get_data_path or get_output_path raises ValueError no
\* directory or file has been created: the filesystem is as it was before
\* the call.
C29_RejectionHasNoEffect ==
    (pc = "done" /\ call.name \in {"get_data_path", "get_output_path"}
                 /\ ret.kind = "raise" /\ ret.val = "ValueError") =>
        (dirs = dirs0 /\ fs = fs0)

(***************************************************************************)
(* data_processing.py: revoke_session called by two threads at once        *)
(*                                                                         *)
(* The threads share _active_sessions and may be switched between any two  *)
(* of the statements of revoke_session.  call, ret and pc hold one entry   *)
(* per thread; pc also keeps the thread's local user_id.  prev is the      *)
(* table before either call.                                               *)
(***************************************************************************)

Threads == {"t1", "t2"}

At(position, user_id) == [at |-> position, user_id |-> user_id]

InitRevoke ==
    /\ sessions \in SessionTables
    /\ now = 0
    /\ bodyRan = FALSE
    /\ issued = DOMAIN sessions
    /\ revoked = {}
    /\ prev = sessions
    /\ call \in [Threads -> {[name |-> "revoke_session", token |-> t] : t \in Tokens}]
    /\ ret = [t \in Threads |-> Running]
    /\ pc = [t \in Threads |-> At("check", "")]
    /\ IdlePath
    /\ effects = <<>>
    /\ fs = <<>>
    /\ fs0 = <<>>
    /\ out = <<>>

\* if session_token in _active_sessions: ... return False
revoke_check(t) ==
    /\ pc[t].at = "check"
    /\ IF call[t].token \in DOMAIN sessions
       THEN /\ pc' = [pc EXCEPT ![t] = At("lookup", "")]
            /\ UNCHANGED ret
       ELSE /\ pc' = [pc EXCEPT ![t] = At("done", "")]
            /\ ret' = [ret EXCEPT ![t] = Returned(FALSE)]
    /\ UNCHANGED <<sessions, revoked, effects>>

\* user_id = _active_sessions[session_token]['user_id']: KeyError when the
\* key is gone.
revoke_lookup(t) ==
    /\ pc[t].at = "lookup"
    /\ IF call[t].token \in DOMAIN sessions
       THEN /\ pc' = [pc EXCEPT ![t] = At("delete", sessions[call[t].token].user_id)]
            /\ UNCHANGED ret
       ELSE /\ pc' = [pc EXCEPT ![t] = At("done", "")]
            /\ ret' = [ret EXCEPT ![t] = Raised("KeyError")]
    /\ UNCHANGED <<sessions, revoked, effects>>

\* del _active_sessions[session_token]: KeyError when the key is gone.
revoke_delete(t) ==
    /\ pc[t].at = "delete"
    /\ IF call[t].token \in DOMAIN sessions
       THEN /\ sessions' = DeleteSession(sessions, call[t].token)
            /\ pc' = [pc EXCEPT ![t] = At("log", pc[t].user_id)]
            /\ UNCHANGED ret
       ELSE /\ pc' = [pc EXCEPT ![t] = At("done", "")]
            /\ ret' = [ret EXCEPT ![t] = Raised("KeyError")]
            /\ UNCHANGED sessions
    /\ UNCHANGED <<revoked, effects>>

\* audit_logger.info("Session revoked: ..."); return True
revoke_log(t) ==
    /\ pc[t].at = "log"
    /\ effects' = Append(effects, AuditRecord("INFO", "Session revoked", pc[t].user_id))
    /\ revoked' = revoked \cup {call[t].token}
    /\ ret' = [ret EXCEPT ![t] = Returned(TRUE)]
    /\ pc' = [pc EXCEPT ![t] = At("done", "")]
    /\ UNCHANGED sessions

NextRevoke ==
    \E t \in Threads :
        /\ \/ revoke_check(t)
           \/ revoke_lookup(t)
           \/ revoke_delete(t)
           \/ revoke_log(t)
        /\ UNCHANGED <<call, now, bodyRan, issued, prev, links, dirs, dirs0, fs, fs0, out>>

SpecRevoke == InitRevoke /\ [][NextRevoke]_vars

(***************************************************************************)
(* Claims about concurrent revocation                                      *)
(***************************************************************************)

ReturnedValue(t, v) == ret[t].kind = "return" /\ ret[t].val = v

\* C30: when two callers revoke the same active token at the same time,
\* in every interleaving exactly one call returns True, the other returns
\* False, neither raises, and the token is absent afterwards.
C30_ConcurrentRevoke ==
    (/\ \A t \in Threads : pc[t].at = "done"
     /\ call["t1"].token = call["t2"].token
     /\ call["t1"].token \in DOMAIN prev) =>
        /\ \A t \in Threads : ret[t].kind = "return"
        /\ \E t \in Threads :
               /\ ReturnedValue(t, TRUE)
               /\ \A u \in Threads \ {t} : ReturnedValue(u, FALSE)
        /\ call["t1"].token \notin DOMAIN sessions

====
